---- MODULE Spec2Model ----
(***************************************************************************)
(* Model of the snapshot cache and permission resolver of                  *)
(* airfocus/client.go (tibuski/goAirfocus).                                *)
(*                                                                         *)
(* Spec      the cache: RefreshCacheIfNeeded, its four fetch goroutines,   *)
(*           the RWMutex, the clock, and the facade operations that call   *)
(*           RefreshCacheIfNeeded and then read under the read lock.       *)
(* SpecCopy  the copies the List* operations return, with the references   *)
(*           their records hold, and what a caller can do with them.       *)
(* SpecPerm  the permission walk of GetUserGroupAccess over every group    *)
(*           set drawn from a bounded universe.                            *)
(***************************************************************************)
EXTENDS Integers, Sequences, FiniteSets, TLC

\* ------------------------------------------------------------------ bounds
MaxRefreshes == 2
MaxTicks == 2

\* --------------------------------------------------------------- constants
\* cacheTTL: 5 * time.Minute; the model's clock counts minutes and is observed
\* once per TTL period, so that an age is 0, exactly cacheTTL, or more.
cacheTTL == 5
\* errChan = make(chan error, 4)
errChanCap == 4

\* time.Time{} (lastUpdate of a new Client) and the first instant of the model:
\* any real "now" is more than cacheTTL after the zero time.
ZeroTime == 0
StartTime == ZeroTime + cacheTTL + 1
MaxNow == StartTime + MaxTicks * cacheTTL

\* The concurrent request handlers sharing one Client.
Callers == {"h1", "h2"}
NoCaller == "none"

Colls == {"users", "workspaces", "fields", "workspaceGroups"}

VARIABLES
  now,         \* the clock read by time.Since / time.Now
  lastUpdate,  \* c.cache.lastUpdate
  cache,       \* c.cache.<collection>: the id of the refresh that wrote it (0: nil)
  wsLen,       \* len(c.cache.workspaces): 0 or 1 (non-empty)
  writer,      \* the caller holding cacheMutex.Lock (NoCaller: unlocked)
  g,           \* position of each of the four goroutines of the refresh in flight
  errChan,     \* the buffered error channel of the refresh in flight: its head and length
  reqs,        \* upstream requests issued by the refresh in flight, per endpoint
  wsNew,       \* len(workspaces) the workspaces goroutine fetched and has not assigned yet
  snap,        \* history: the cache when the refresh in flight started
  hist,        \* history: outcome of every refresh that ran its fetch section
  pc, op, ip,  \* each caller's facade operation and position in it
  got,         \* each caller's local copies read under the read lock
  ret,         \* each caller's last RefreshCacheIfNeeded return
  opRes,       \* each caller's last facade operation result
  refErr,      \* history: a RefreshCacheIfNeeded call of the running operation failed
  missed,      \* history: outcome of the last refresh that ended while the caller waited for Lock
  \* --- SpecCopy: what the List* operations hand out
  heap,        \* the objects behind references: maps, slice backing arrays, pointees
  cached,      \* the cached record of each collection (one record per collection)
  handed,      \* the record of the copy each List* returned to the caller
  orig,        \* history: the cached content, references followed, at construction
  \* --- SpecPerm: GetUserGroupAccess for one user
  groups,      \* the cached workspace groups: parent, default permission, the user's grant
  wTarget,     \* calculateGroupPermission's argument groupID
  wCur,        \* currentGroupID
  wEff,        \* effectivePermission
  wState,      \* "idle", "walk" or "done"
  \* --- SpecAccess: GetUserWorkspaces and GetUserGroupAccess for one user
  aGroups,     \* c.cache.workspaceGroups, in cached order
  aWs,         \* c.cache.workspaces as ListWorkspaces reads it, in cached order
  aOp,         \* the operation under way, between two of its read-lock sections
  aLine,       \* the line of its next read-lock section (0: none under way)
  aSeen,       \* history: the list each read-lock section of the operations read
  aRefreshes,  \* the refreshes that fell between two read-lock sections of an operation
  aFailed,     \* the operation that returned (nil, err)
  aCalled,     \* the operations that have returned a result
  uw,          \* what GetUserWorkspaces returned
  ga,          \* what GetUserGroupAccess returned
  \* --- SpecWorkspaceUsers: GetWorkspaceUsers for one workspace
  wuPerms,     \* workspace.Embedded.Permissions as GetWorkspaceByID returns it
  wuUsers,     \* c.cache.users, in the order the upstream returned them
  wuUp,        \* history: which of the two calls succeeded
  wuRes,       \* "none", "ok" or "err"
  wuOut,       \* the returned []WorkspaceUser
  \* --- SpecFields: the WorkspaceNames fetchFields computes for one field
  fWs,         \* the workspace list fetchFields builds workspaceMap from
  fField,      \* one item of the field search response
  fDone,       \* fetchFields has returned
  fOut,        \* WorkspaceNames of the returned FieldWithWorkspaceNames
  \* --- SpecCancel: the context of each caller
  cancelled,   \* ctx.Done() of each caller's context is closed
  cancelledInFlight, \* history: the context was cancelled while a fetch of the caller's refresh was in flight
  \* --- SpecWalk: the two ancestor walks and calculateWorkspacePermission
  pTarget,     \* getFullGroupPath's argument groupID
  pCur,        \* getFullGroupPath's currentID
  pPath,       \* getFullGroupPath's path ([]string)
  pOut,        \* the string getFullGroupPath returned
  pState,      \* "idle", "walk" or "done"
  wsRec,       \* calculateWorkspacePermission's argument workspace
  wsEff,       \* its effectivePermission
  wsState,     \* "idle", "group" (inside calculateGroupPermission) or "done"
  \* --- SpecHierarchy: GetWorkspaceHierarchy
  hGroups,     \* the cached workspace groups, in the order the upstream returned them
  hOut,        \* the map GetWorkspaceHierarchy returned
  hCalled,     \* GetWorkspaceHierarchy has returned
  hErr,        \* it returned nil, err (ListWorkspaceGroups failed)
  \* --- SpecNames: the workspace names fetchFields resolves
  upWs,        \* the workspace list the upstream holds
  cWs,         \* c.cache.workspaces (ids and names)
  wMap,        \* workspaceMap of the fetchFields call in flight
  cNames       \* WorkspaceNames of the cached field

copyVars == <<heap, cached, handed, orig>>
permVars == <<groups, wTarget, wCur, wEff, wState>>
accessVars == <<aGroups, aWs, aOp, aLine, aSeen, aRefreshes, aFailed, aCalled, uw, ga>>
wuVars == <<wuPerms, wuUsers, wuUp, wuRes, wuOut>>
fieldVars == <<fWs, fField, fDone, fOut>>
ctxVars == <<cancelled, cancelledInFlight>>
walkVars == <<pTarget, pCur, pPath, pOut, pState, wsRec, wsEff, wsState>>
hierVars == <<hGroups, hOut, hCalled, hErr>>
nameVars == <<upWs, cWs, wMap, cNames>>
laterVars == <<accessVars, wuVars, fieldVars, ctxVars, walkVars, hierVars, nameVars>>

vars == <<now, lastUpdate, cache, wsLen, writer, g, errChan, reqs, wsNew,
          snap, hist, pc, op, ip, got, ret, opRes, refErr, missed, copyVars, permVars,
          laterVars>>

cacheVars == <<cache, wsLen>>
otherVars == <<copyVars, permVars, laterVars>>
refreshVars == <<g, errChan, reqs, wsNew, snap>>
callerVars == <<pc, op, ip, got, ret, opRes, refErr, missed>>

\* ------------------------------------------------------ facade operations
\* Each facade operation is a sequence of RefreshCacheIfNeeded calls ("R"),
\* read-lock sections that copy one cached collection, and GetWorkspaceByID
\* calls ("W"), which ask the upstream and do not touch the cache.
ListWorkspaceGroupsScript == <<"R", "workspaceGroups">>
ListFieldsScript == <<"R", "fields">>
ListUsersScript == <<"R", "users">>
GetUserScript == <<"R", "users">>
ListWorkspacesScript == <<"R">> \o ListWorkspaceGroupsScript \o <<"workspaces">>
GetUserWorkspacesScript == <<"R">> \o ListWorkspacesScript \o ListWorkspaceGroupsScript
GetUserGroupAccessScript == ListWorkspaceGroupsScript \o ListWorkspacesScript
\* main.go, handleGetUserWorkspaces: client.RefreshCacheIfNeeded(ctx), then
\* client.GetUserWorkspaces(ctx, userID), on the Client the handler made
handleGetUserWorkspacesScript == <<"R">> \o GetUserWorkspacesScript
\* GetWorkspaceUsers: GetWorkspaceByID, then ListUsers unless the workspace
\* was not found or has no permissions
GetWorkspaceUsersScript == <<"W">> \o ListUsersScript
\* main.go, handleGetWorkspaceUsers: GetWorkspaceUserStats (which calls
\* GetWorkspaceUsers), then GetWorkspaceUsers
handleGetWorkspaceUsersScript == GetWorkspaceUsersScript \o GetWorkspaceUsersScript
\* unnamed/part_003, handleGetUserInfoHTMX: client.GetUser, then
\* client.GetUserGroupAccess, on the Client the handler made
handleGetUserInfoHTMXScript == GetUserScript \o GetUserGroupAccessScript

\* The operations of the handlers of main.go and of unnamed/part_003. Every
\* handler makes its own Client (client := airfocus.NewClient(apiKey)) and
\* returns at the first error.
HandlerOps == {"ListFields", "ListUsers", "ListWorkspaces", "GetWorkspaceUsers",
               "handleGetUserWorkspaces", "handleGetWorkspaceUsers",
               "handleGetUserInfoHTMX"}

Ops == {"RefreshCacheIfNeeded", "ListWorkspaceGroups", "ListFields", "ListUsers", "GetUser",
        "ListWorkspaces", "GetUserWorkspaces", "GetUserGroupAccess"}

\* Spec is the Client type used from two goroutines at once, the use its
\* cacheMutex is there for: h1 runs any facade operation, h2 is a second
\* goroutine calling RefreshCacheIfNeeded on the same Client. main.go itself
\* never shares a Client between requests: the runs of the program it builds
\* are those of SpecHandler below.
OpsOf(p) == IF p = "h1" THEN Ops ELSE {"RefreshCacheIfNeeded"}

Script(o) ==
  CASE o = "RefreshCacheIfNeeded" -> <<"R">>
    [] o = "ListWorkspaceGroups" -> ListWorkspaceGroupsScript
    [] o = "ListFields" -> ListFieldsScript
    [] o = "ListUsers" -> ListUsersScript
    [] o = "GetUser" -> GetUserScript
    [] o = "ListWorkspaces" -> ListWorkspacesScript
    [] o = "GetUserWorkspaces" -> GetUserWorkspacesScript
    [] o = "GetUserGroupAccess" -> GetUserGroupAccessScript
    [] o = "handleGetUserWorkspaces" -> handleGetUserWorkspacesScript
    [] o = "GetWorkspaceUsers" -> GetWorkspaceUsersScript
    [] o = "handleGetWorkspaceUsers" -> handleGetWorkspaceUsersScript
    [] o = "handleGetUserInfoHTMX" -> handleGetUserInfoHTMXScript

\* The read-lock section of GetUser (the users section at the start of the
\* scripts that begin with GetUser).
InGetUser(o, i) == o \in {"GetUser", "handleGetUserInfoHTMX"} /\ i = 2

NextPc(o, i) ==
  IF i > Len(Script(o)) THEN "idle"
  ELSE IF Script(o)[i] = "R" THEN "check"
  ELSE IF Script(o)[i] = "W" THEN "byID" ELSE "read"

NoErrs == [head |-> "", len |-> 0]
NoCopies == [k \in Colls |-> -1]
NoReqs == [k \in Colls |-> 0]
NoRet == [val |-> "none", path |-> "none"]

\* --------------------------------------------------- RefreshCacheIfNeeded
NeedsRefreshAtBoundary(t, lu) == t - lu >= cacheTTL

\* needsRefresh := time.Since(c.cache.lastUpdate) > c.cacheTTL
NeedsRefresh(t, lu) == t - lu > cacheTTL

RecheckNever(t, lu) == FALSE

\* if time.Since(c.cache.lastUpdate) <= c.cacheTTL { return nil }
RecheckFresh(t, lu) == t - lu <= cacheTTL

CommitTimeNever(errs, t, lu) == lu

\* for err := range errChan { return err }; c.cache.lastUpdate = time.Now()
CommitTime(errs, t, lu) == IF errs.len = 0 THEN t ELSE lu

AfterRefreshServeStale(o, i, val) ==
  [pc |-> NextPc(o, i + 1), ip |-> i + 1,
   res |-> IF i + 1 > Len(Script(o)) THEN "ok" ELSE "none"]

\* What a facade operation does with the return of RefreshCacheIfNeeded:
\* on an error it returns (nil, err) at once; otherwise it goes on.
AfterRefresh(o, i, val) ==
  IF val = "err" THEN [pc |-> "idle", ip |-> 0, res |-> "err"]
  ELSE [pc |-> NextPc(o, i + 1), ip |-> i + 1,
        res |-> IF i + 1 > Len(Script(o)) THEN "ok" ELSE "none"]

\* The caller's state after a RefreshCacheIfNeeded call returned r.
Returned(p, r) ==
  LET a == AfterRefresh(op[p], ip[p], r.val) IN
  /\ ret' = [ret EXCEPT ![p] = r]
  /\ pc' = [pc EXCEPT ![p] = a.pc]
  /\ ip' = [ip EXCEPT ![p] = a.ip]
  /\ refErr' = [refErr EXCEPT ![p] = refErr[p] \/ r.val = "err"]
  /\ opRes' = [opRes EXCEPT ![p] = a.res]
  /\ got' = [got EXCEPT ![p] = IF a.res = "err" THEN NoCopies ELSE got[p]]

CacheInit ==
  /\ now = StartTime
  /\ lastUpdate = ZeroTime
  /\ cache = [k \in Colls |-> 0]
  /\ wsLen = 0
  /\ writer = NoCaller
  /\ g = [k \in Colls |-> "idle"]
  /\ errChan = NoErrs
  /\ reqs = NoReqs
  /\ wsNew = 0
  /\ snap = [k \in Colls |-> 0]
  /\ hist = <<>>
  /\ pc = [p \in Callers |-> "new"]
  /\ op = [p \in Callers |-> "RefreshCacheIfNeeded"]
  /\ ip = [p \in Callers |-> 0]
  /\ got = [p \in Callers |-> NoCopies]
  /\ ret = [p \in Callers |-> NoRet]
  /\ opRes = [p \in Callers |-> "none"]
  /\ refErr = [p \in Callers |-> FALSE]
  /\ missed = [p \in Callers |-> "none"]

\* The range over c.cache.workspaces in fetchFields read a slice header the
\* workspaces goroutine was writing: the goroutine panicked and the process
\* with it (no recover in the goroutines of RefreshCacheIfNeeded).
Panicked == g["fields"] = "panic"

\* The clock advances.
Tick ==
  /\ ~Panicked
  /\ now < MaxNow
  /\ now' = now + cacheTTL
  /\ UNCHANGED <<lastUpdate, cacheVars, writer, refreshVars, hist, callerVars>>
  /\ UNCHANGED otherVars

\* A request handler calls a facade operation (one operation per handler).
Start(p, o) ==
  /\ ~Panicked
  /\ pc[p] = "new"
  /\ op' = [op EXCEPT ![p] = o]
  /\ ip' = [ip EXCEPT ![p] = 1]
  /\ pc' = [pc EXCEPT ![p] = NextPc(o, 1)]
  /\ got' = [got EXCEPT ![p] = NoCopies]
  /\ ret' = [ret EXCEPT ![p] = NoRet]
  /\ opRes' = [opRes EXCEPT ![p] = "none"]
  /\ refErr' = [refErr EXCEPT ![p] = FALSE]
  /\ missed' = [missed EXCEPT ![p] = "none"]
  /\ UNCHANGED <<now, lastUpdate, cacheVars, writer, refreshVars, hist>>
  /\ UNCHANGED otherVars

\* RLock; needsRefresh := ...; RUnlock; if !needsRefresh { return nil }
RCheck(p) ==
  /\ pc[p] = "check"
  /\ writer = NoCaller
  /\ IF NeedsRefresh(now, lastUpdate)
       THEN /\ pc' = [pc EXCEPT ![p] = "wantLock"]
            /\ missed' = [missed EXCEPT ![p] = "none"]
            /\ UNCHANGED <<ip, ret, opRes, refErr, got>>
       ELSE /\ Returned(p, [val |-> "nil", path |-> "fresh"])
            /\ UNCHANGED missed
  /\ UNCHANGED <<now, lastUpdate, cacheVars, writer, refreshVars, hist, op>>
  /\ UNCHANGED otherVars

\* Lock; the double check; either return nil or start the four goroutines.
RLockRecheck(p) ==
  /\ pc[p] = "wantLock"
  /\ writer = NoCaller
  /\ IF RecheckFresh(now, lastUpdate)
       THEN /\ Returned(p, [val |-> "nil", path |-> "collapsed"])
            /\ missed' = [missed EXCEPT ![p] = "none"]
            /\ UNCHANGED <<writer, refreshVars>>
       ELSE /\ Len(hist) < MaxRefreshes
            /\ writer' = p
            /\ pc' = [pc EXCEPT ![p] = "wait"]
            /\ g' = [k \in Colls |-> "run"]
            /\ errChan' = NoErrs
            /\ reqs' = NoReqs
            /\ snap' = cache
            /\ UNCHANGED <<wsNew, ip, ret, opRes, refErr, missed, got>>
  /\ UNCHANGED <<now, lastUpdate, cacheVars, hist, op>>
  /\ UNCHANGED otherVars

\* The id of the refresh in flight.
Rid == Len(hist) + 1

\* errChan := make(chan error, 4): a send goes through while the buffer has
\* room and blocks otherwise (nothing receives before wg.Wait has returned)
CanSend(ch) == ch.len < errChanCap

\* errChan <- err: only the first error is ever received (the return in the
\* range loop), so the channel is kept as its head and its length.
Send(k) ==
  IF errChan.len < errChanCap
    THEN [head |-> IF errChan.len = 0 THEN k ELSE errChan.head, len |-> errChan.len + 1]
    ELSE errChan

\* go func() { users, err := c.fetchUsers(ctx); ...; c.cache.users = users }()
\* (and the same for workspace groups)
GoFetch(k, ok) ==
  /\ ~Panicked
  /\ k \in {"users", "workspaceGroups"}
  /\ g[k] = "run"
  /\ g' = [g EXCEPT ![k] = "done"]
  /\ reqs' = [reqs EXCEPT ![k] = @ + 1]
  /\ IF ok THEN /\ cache' = [cache EXCEPT ![k] = Rid]
                /\ UNCHANGED errChan
           ELSE /\ CanSend(errChan)
                /\ errChan' = Send(k)
                /\ UNCHANGED cache
  /\ UNCHANGED <<now, lastUpdate, wsLen, writer, wsNew, snap, hist, callerVars>>
  /\ UNCHANGED otherVars

\* go func() { workspaces, err := c.fetchWorkspaces(ctx); if err != nil { errChan <- ...; return } ... }()
\* up to the return of fetchWorkspaces: a list of n workspaces, or the error
GoFetchWorkspacesStep(ok, n) ==
  /\ g["workspaces"] = "run"
  /\ reqs' = [reqs EXCEPT !["workspaces"] = @ + 1]
  /\ IF ok THEN /\ g' = [g EXCEPT !["workspaces"] = "fetched"]
                /\ wsNew' = n
                /\ UNCHANGED errChan
           ELSE /\ CanSend(errChan)
                /\ g' = [g EXCEPT !["workspaces"] = "done"]
                /\ errChan' = Send("workspaces")
                /\ UNCHANGED wsNew
  /\ UNCHANGED <<now, lastUpdate, cacheVars, writer, snap, hist, callerVars>>

GoFetchWorkspaces(ok, n) ==
  /\ GoFetchWorkspacesStep(ok, n)
  /\ UNCHANGED otherVars

\* c.cache.workspaces = workspaces, in the workspaces goroutine
WorkspacesAssignStep ==
  /\ ~Panicked
  /\ g["workspaces"] = "fetched"
  /\ g' = [g EXCEPT !["workspaces"] = "done"]
  /\ cache' = [cache EXCEPT !["workspaces"] = Rid]
  /\ wsLen' = wsNew
  /\ wsNew' = 0
  /\ UNCHANGED <<now, lastUpdate, writer, errChan, reqs, snap, hist, callerVars>>

WorkspacesAssign ==
  /\ WorkspacesAssignStep
  /\ UNCHANGED otherVars

\* fetchFields: if len(c.cache.workspaces) == 0 { fetch them directly } else { range over the cache }
\* The read is not ordered with the workspaces goroutine's write. While that
\* goroutine is at its assignment (line 759: three words stored, none of
\* them ordered with this read) the read sees the length of the cached list
\* or, with seeNew, the length of the list being assigned.
FieldsLenCheckStep(seeNew) ==
  /\ g["fields"] = "run"
  /\ seeNew => g["workspaces"] = "fetched"
  /\ g' = [g EXCEPT !["fields"] =
              IF (IF seeNew THEN wsNew ELSE wsLen) = 0 THEN "prefetch" ELSE "range"]
  /\ UNCHANGED <<now, lastUpdate, cacheVars, writer, errChan, reqs, wsNew, snap, hist,
                 callerVars>>

FieldsLenCheck(seeNew) ==
  /\ FieldsLenCheckStep(seeNew)
  /\ UNCHANGED otherVars

\* for _, ws := range c.cache.workspaces { workspaceMap[ws.ID] = ws.Name }: a
\* second read of the cached list, not ordered with the workspaces
\* goroutine's write either and independent of what line 878 read; here it
\* reads a list as a whole: the cached one or, with seeNew, the one being
\* assigned.
FieldsRangeStep(seeNew) ==
  /\ g["fields"] = "range"
  /\ seeNew => g["workspaces"] = "fetched"
  /\ g' = [g EXCEPT !["fields"] = "search"]
  /\ UNCHANGED <<now, lastUpdate, cacheVars, writer, errChan, reqs, wsNew, snap, hist,
                 callerVars>>

FieldsRange(seeNew) ==
  /\ FieldsRangeStep(seeNew)
  /\ UNCHANGED otherVars

\* The same read taken while the workspaces goroutine assigns the slice: a
\* slice is pointer, length and capacity, read and written word by word, so
\* the range can pair the length of one list with the array of the other.
\* When the two lists differ in length it then reads past the end of the
\* array: through a nil pointer the goroutine panics (crash), otherwise it
\* goes on with whatever the memory held.
FieldsRangeTornStep(crash) ==
  /\ g["fields"] = "range"
  /\ g["workspaces"] = "fetched"
  /\ wsNew # wsLen
  /\ g' = [g EXCEPT !["fields"] = IF crash THEN "panic" ELSE "search"]
  /\ UNCHANGED <<now, lastUpdate, cacheVars, writer, errChan, reqs, wsNew, snap, hist,
                 callerVars>>

FieldsRangeTorn(crash) ==
  /\ FieldsRangeTornStep(crash)
  /\ UNCHANGED otherVars

\* workspaces, err := c.fetchWorkspaces(ctx) inside fetchFields
FieldsPrefetchStep(ok) ==
  /\ g["fields"] = "prefetch"
  /\ reqs' = [reqs EXCEPT !["workspaces"] = @ + 1]
  /\ IF ok THEN /\ g' = [g EXCEPT !["fields"] = "search"]
                /\ UNCHANGED errChan
           ELSE /\ CanSend(errChan)
                /\ g' = [g EXCEPT !["fields"] = "done"]
                /\ errChan' = Send("fields")
  /\ UNCHANGED <<now, lastUpdate, cacheVars, writer, wsNew, snap, hist, callerVars>>

FieldsPrefetch(ok) ==
  /\ FieldsPrefetchStep(ok)
  /\ UNCHANGED otherVars

\* POST /fields/search, then c.cache.fields = fields in the goroutine
FieldsSearchStep(ok) ==
  /\ g["fields"] = "search"
  /\ g' = [g EXCEPT !["fields"] = "done"]
  /\ reqs' = [reqs EXCEPT !["fields"] = @ + 1]
  /\ IF ok THEN /\ cache' = [cache EXCEPT !["fields"] = Rid]
                /\ UNCHANGED errChan
           ELSE /\ CanSend(errChan)
                /\ errChan' = Send("fields")
                /\ UNCHANGED cache
  /\ UNCHANGED <<now, lastUpdate, wsLen, writer, wsNew, snap, hist, callerVars>>

FieldsSearch(ok) ==
  /\ FieldsSearchStep(ok)
  /\ UNCHANGED otherVars

AllDone == \A k \in Colls : g[k] = "done"

\* wg.Wait(); close(errChan); return the first error, or set lastUpdate and
\* return nil; the deferred Unlock.
RWait(p) ==
  /\ pc[p] = "wait"
  /\ writer = p
  /\ AllDone
  /\ lastUpdate' = CommitTime(errChan, now, lastUpdate)
  /\ writer' = NoCaller
  /\ g' = [k \in Colls |-> "idle"]
  /\ hist' = Append(hist, IF errChan = NoErrs THEN "ok" ELSE "failed")
  /\ LET r == IF errChan = NoErrs
                THEN [val |-> "nil", path |-> "committed"]
                ELSE [val |-> "err", path |-> "failed"]
     IN
     Returned(p, r)
  /\ missed' = [q \in Callers |->
                  IF q # p /\ pc[q] = "wantLock"
                    THEN (IF errChan = NoErrs THEN "ok" ELSE "failed")
                    ELSE IF q = p THEN "none" ELSE missed[q]]
  /\ errChan' = NoErrs
  /\ reqs' = NoReqs
  /\ snap' = cache
  /\ UNCHANGED <<now, cacheVars, wsNew, op>>
  /\ UNCHANGED otherVars

\* RLock; copy the cached collection; RUnlock.
\* GetUser ranges over c.cache.users under the read lock instead and returns
\* the user with the id, or User{} and the error "user with ID ... not found"
\* when the cached list holds no such user (found = FALSE); the handler
\* that called GetUser then returns.
Read(p, found) ==
  /\ pc[p] = "read"
  /\ writer = NoCaller
  /\ found \/ InGetUser(op[p], ip[p])
  /\ LET k == Script(op[p])[ip[p]]
         copies == [got[p] EXCEPT ![k] = cache[k]]
         last == ip[p] + 1 > Len(Script(op[p])) IN
     /\ got' = [got EXCEPT ![p] = IF found THEN copies ELSE NoCopies]
     /\ ip' = [ip EXCEPT ![p] = @ + 1]
     /\ pc' = [pc EXCEPT ![p] = IF found THEN NextPc(op[p], ip[p] + 1) ELSE "idle"]
     /\ opRes' = [opRes EXCEPT ![p] = IF ~found THEN "err"
                                      ELSE IF last THEN "ok" ELSE "none"]
  /\ UNCHANGED <<now, lastUpdate, cacheVars, writer, refreshVars, hist, op, ret,
                 refErr, missed>>
  /\ UNCHANGED otherVars

\* GetWorkspaceUsers, lines 460-467: workspace, err := c.GetWorkspaceByID(...)
\* asks the upstream. res = "err": the call failed and GetWorkspaceUsers
\* returns the error, which the handler returns too; res = "empty": the
\* workspace has no permissions and GetWorkspaceUsers returns an empty list
\* without calling ListUsers; res = "perms": it goes on to ListUsers.
GetWorkspaceByID(p, res) ==
  /\ pc[p] = "byID"
  /\ LET to == IF res = "perms" THEN ip[p] + 1 ELSE ip[p] + 1 + Len(ListUsersScript) IN
     IF res = "err"
       THEN /\ pc' = [pc EXCEPT ![p] = "idle"]
            /\ ip' = [ip EXCEPT ![p] = 0]
            /\ opRes' = [opRes EXCEPT ![p] = "err"]
            /\ got' = [got EXCEPT ![p] = NoCopies]
       ELSE /\ pc' = [pc EXCEPT ![p] = NextPc(op[p], to)]
            /\ ip' = [ip EXCEPT ![p] = to]
            /\ opRes' = [opRes EXCEPT ![p] = IF to > Len(Script(op[p])) THEN "ok" ELSE "none"]
            /\ UNCHANGED got
  /\ UNCHANGED <<now, lastUpdate, cacheVars, writer, refreshVars, hist, op, ret,
                 refErr, missed>>
  /\ UNCHANGED otherVars

Next ==
  \/ Tick
  \/ \E p \in Callers : \E o \in OpsOf(p) : Start(p, o)
  \/ \E p \in Callers : RCheck(p)
  \/ \E p \in Callers : RLockRecheck(p)
  \/ \E k \in {"users", "workspaceGroups"}, ok \in BOOLEAN : GoFetch(k, ok)
  \/ \E ok \in BOOLEAN, n \in 0..1 : GoFetchWorkspaces(ok, n)
  \/ WorkspacesAssign
  \/ \E seeNew \in BOOLEAN : FieldsLenCheck(seeNew)
  \/ \E seeNew \in BOOLEAN : FieldsRange(seeNew)
  \/ \E crash \in BOOLEAN : FieldsRangeTorn(crash)
  \/ \E ok \in BOOLEAN : FieldsPrefetch(ok)
  \/ \E ok \in BOOLEAN : FieldsSearch(ok)
  \/ \E p \in Callers : RWait(p)
  \/ \E p \in Callers, found \in BOOLEAN : Read(p, found)

\* ------------------------------------------------- SpecCopy: List* copies
\* The reference-typed members of each cached record type: a copy of the
\* struct copies the reference, not what it refers to.
RefFields(k) ==
  CASE k = "users" -> {"State"}
    [] k = "workspaces" -> {"Embedded.Permissions", "Description.Blocks"}
    [] k = "fields" -> {"Embedded.Workspaces", "Embedded.AllWorkspaceIDs", "WorkspaceNames"}
    [] k = "workspaceGroups" -> {"Embedded.Workspaces", "Embedded.Permissions"}

Addrs == UNION {{<<k, f>> : f \in RefFields(k)} : k \in Colls}
Vals == {"v0", "v1"}

\* The cached content with every reference followed.
Deep(recs, h) ==
  [k \in Colls |-> [scalar |-> recs[k].scalar,
                    ref |-> [f \in RefFields(k) |-> h[recs[k].ref[f]]]]]

NotHanded == [held |-> FALSE, scalar |-> "v0", ref |-> <<>>]

CopyIdle ==
  /\ heap = [a \in Addrs |-> "v0"]
  /\ cached = [k \in Colls |-> [scalar |-> "v0", ref |-> [f \in RefFields(k) |-> <<k, f>>]]]
  /\ handed = [k \in Colls |-> NotHanded]
  /\ orig = Deep(cached, heap)

\* copy(dst, c.cache.<collection>) / workspace := ws: the element is copied
\* by value, so its scalars are the caller's own and its references are shared.
CopyElement(rec) == [held |-> TRUE, scalar |-> rec.scalar, ref |-> rec.ref]

\* ListUsers, ListWorkspaces, ListFields, ListWorkspaceGroups hand out a copy.
ListCopy(k) ==
  /\ ~handed[k].held
  /\ handed' = [handed EXCEPT ![k] = CopyElement(cached[k])]
  /\ UNCHANGED <<heap, cached, orig>>

\* The caller assigns a scalar member of a returned record (ws.Name = ...).
WriteScalar(k, v) ==
  /\ handed[k].held
  /\ handed[k].scalar # v
  /\ handed' = [handed EXCEPT ![k].scalar = v]
  /\ UNCHANGED <<heap, cached, orig>>

\* The caller writes through a reference of a returned record
\* (group.Embedded.Permissions[u] = ..., group.Embedded.Workspaces[0] = ...).
WriteThrough(k, f, v) ==
  /\ handed[k].held
  /\ heap[handed[k].ref[f]] # v
  /\ heap' = [heap EXCEPT ![handed[k].ref[f]] = v]
  /\ UNCHANGED <<cached, handed, orig>>

cacheSpecVars == <<now, lastUpdate, cache, wsLen, writer, g, errChan, reqs, wsNew,
                   snap, hist, pc, op, ip, got, ret, opRes, refErr, missed>>

NextCopy ==
  \/ \E k \in Colls : ListCopy(k) /\ UNCHANGED <<cacheSpecVars, permVars, laterVars>>
  \/ \E k \in Colls, v \in Vals : WriteScalar(k, v) /\ UNCHANGED <<cacheSpecVars, permVars, laterVars>>
  \/ \E k \in Colls : \E f \in RefFields(k), v \in Vals :
       WriteThrough(k, f, v) /\ UNCHANGED <<cacheSpecVars, permVars, laterVars>>

\* ------------------------------------- SpecPerm: GetUserGroupAccess(userID)
GroupIDs == {"A", "B"}
\* a parentId naming no cached group
UnknownGroup == "X"
ParentIDs == GroupIDs \cup {"", UnknownGroup}
Permissions == {"read", "comment", "write", "full"}
\* contents of defaultPermission and of the grant maps: the four permissions,
\* the empty string and a string outside the four
PermStrings == Permissions \cup {"", "admin"}
\* the user is no key of the grant map
NoGrant == "<absent>"

GroupRecs == [parent : ParentIDs, default : PermStrings, grant : PermStrings \cup {NoGrant}]

\* pOrder := map[Permission]int{read: 1, comment: 2, write: 3, full: 4}; a
\* missing key reads as 0
pOrder(perm) ==
  CASE perm = "read" -> 1
    [] perm = "comment" -> 2
    [] perm = "write" -> 3
    [] perm = "full" -> 4
    [] OTHER -> 0

getHighestPermissionTakeNew(currentPerm, newPerm) == newPerm

getHighestPermission(currentPerm, newPerm) ==
  IF pOrder(newPerm) > pOrder(currentPerm) THEN newPerm ELSE currentPerm

\* for _, group := range groups { if group.ParentID != "" { groupParentMap[group.ID] = group.ParentID } }
\* over the group list gs: only a record with a non-empty ParentID writes its
\* key, and the last such record of an id is the one the map keeps.
groupParentMapOf(gs) ==
  LET writes == {i \in 1..Len(gs) : gs[i].parent # ""} IN
  [id \in {gs[i].id : i \in writes} |->
     gs[CHOOSE i \in writes :
          gs[i].id = id /\ \A j \in writes : gs[j].id = id => j <= i].parent]

\* The same map for a group set given as its groupMap, one record per id
\* (SpecPerm, SpecWalk).
parentsOf(gm) == [id \in {i \in DOMAIN gm : gm[i].parent # ""} |-> gm[id].parent]

groupParentMapNoParent(pm, id) == ""

\* groupParentMap[id]: a missing key reads as ""
groupParentMapSelf(pm, id) == id

groupParentMap(pm, id) == IF id \in DOMAIN pm THEN pm[id] ELSE ""

MergeGroupGrantOnly(eff, grp) ==
  IF grp.grant # NoGrant THEN getHighestPermission(eff, grp.grant) ELSE eff

\* One iteration of calculateGroupPermission's loop body on a known group.
MergeGroup(eff, grp) ==
  LET e1 == IF grp.grant # NoGrant THEN getHighestPermission(eff, grp.grant) ELSE eff
  IN IF grp.default # "" THEN getHighestPermission(e1, grp.default) ELSE e1

PermIdle ==
  /\ groups = [i \in GroupIDs |-> [parent |-> "", default |-> "", grant |-> NoGrant]]
  /\ wTarget = ""
  /\ wCur = ""
  /\ wEff = "read"
  /\ wState = "idle"

PermInit ==
  /\ groups \in [GroupIDs -> GroupRecs]
  /\ wTarget = ""
  /\ wCur = ""
  /\ wEff = "read"
  /\ wState = "idle"

\* calculateGroupPermission(groupID): effectivePermission := PermissionRead
WalkStart(gid) ==
  /\ wState \in {"idle", "done"}
  /\ wTarget' = gid
  /\ wCur' = gid
  /\ wEff' = "read"
  /\ wState' = "walk"
  /\ UNCHANGED groups

\* for currentGroupID != "" { if group, ok := groupMap[currentGroupID]; ok {...} else { break } }
WalkStep ==
  /\ wState = "walk"
  /\ IF wCur # "" /\ wCur \in DOMAIN groups
       THEN /\ wEff' = MergeGroup(wEff, groups[wCur])
            /\ wCur' = groupParentMap(parentsOf(groups), wCur)
            /\ UNCHANGED wState
       ELSE /\ wState' = "done"
            /\ UNCHANGED <<wEff, wCur>>
  /\ UNCHANGED <<groups, wTarget>>

NextPerm ==
  \/ \E gid \in GroupIDs : WalkStart(gid) /\ UNCHANGED <<cacheSpecVars, copyVars, laterVars>>
  \/ WalkStep /\ UNCHANGED <<cacheSpecVars, copyVars, laterVars>>


\* --------------- SpecAccess: ListWorkspaces, GetUserWorkspaces, GetUserGroupAccess
\* Names and paths are strings of bytes, compared as Go compares strings.
NameA == <<65>>
NameB == <<66>>
NameC == <<67>>
NameK == <<75>>
NameM == <<77>>
\* " > "
PathSep == <<32, 62, 32>>
NoName == <<>>

\* strings.Join(elems, sep)
RECURSIVE Join(_, _)
Join(elems, sep) ==
  IF elems = <<>> THEN <<>>
  ELSE IF Len(elems) = 1 THEN elems[1]
  ELSE elems[1] \o sep \o Join(Tail(elems), sep)

\* a < b on Go strings: bytewise lexicographic, a proper prefix first
RECURSIVE StrLess(_, _)
StrLess(a, b) ==
  IF b = <<>> THEN FALSE
  ELSE IF a = <<>> THEN TRUE
  ELSE IF a[1] # b[1] THEN a[1] < b[1]
  ELSE StrLess(Tail(a), Tail(b))

\* A workspace embedded in a group record as upstream sends it: its
\* CurrentPermission is decoded from the upstream field currentPermission
\* (json:"currentPermission,omitempty"), empty when upstream leaves it out.
Embedded(wid, cur) == [id |-> wid, cur |-> cur]

\* The group sets of the model: g1 "A", g2 "B", g3 "C"; g2 may be a child of
\* g1 and g3 of g1 or g2 (no parent cycle), g1 may name an unknown parent.
AccessGroupSets ==
  {<<[id |-> "g1", name |-> NameA, parent |-> p1, default |-> d1, grant |-> NoGrant,
      emb |-> <<>>, cur |-> ""],
     [id |-> "g2", name |-> NameB, parent |-> p2, default |-> "", grant |-> r2,
      emb |-> e2, cur |-> ""],
     [id |-> "g3", name |-> NameC, parent |-> p3, default |-> d3, grant |-> NoGrant,
      emb |-> e3, cur |-> ""]>> :
     p1 \in {"", UnknownGroup}, p2 \in {"", "g1"}, p3 \in {"", "g1", "g2"},
     d1 \in {"", "comment"}, d3 \in {"", "write"}, r2 \in {NoGrant, "full"},
     e2 \in {<<>>, <<Embedded("w2", "")>>},
     e3 \in {<<>>, <<Embedded("w1", "")>>, <<Embedded("w2", "read")>>,
             <<Embedded("w1", "read"), Embedded("w2", "")>>}}

\* The cached workspace lists of the model, in the order of the workspace
\* search (name ascending, lines 829-836): w2 "K" then w1 "M", or w1 alone
\* (w2 archived, so not returned by the search). GroupName is decoded from
\* upstream (json:"groupName,omitempty"): absent, or for w1 under g1 a name
\* upstream sent that is not the name of g1 in the group list.
AccessWorkspace1 ==
  {[id |-> "w1", name |-> NameM, GroupID |-> gid, GroupName |-> NoName, grant |-> r] :
     gid \in {"", "g1", "g3"}, r \in {NoGrant, "write"}}
    \cup {[id |-> "w1", name |-> NameM, GroupID |-> "g1", GroupName |-> NameB,
           grant |-> NoGrant]}
AccessWorkspace2 ==
  {[id |-> "w2", name |-> NameK, GroupID |-> gid, GroupName |-> NoName, grant |-> r] :
     gid \in {"", "g1", "g3"}, r \in {NoGrant, "read"}}
AccessWorkspaceLists ==
  {<<b, a>> : a \in AccessWorkspace1, b \in AccessWorkspace2}
    \cup {<<a>> : a \in AccessWorkspace1}

\* for _, group := range groups { groupMap[group.ID] = group }
groupMap(gs) ==
  [id \in {gs[i].id : i \in 1..Len(gs)} |->
     gs[CHOOSE i \in 1..Len(gs) :
          gs[i].id = id /\ \A j \in (i + 1)..Len(gs) : gs[j].id # id]]

\* workspaceGroupMap[ws.ID]: the groups whose embedded list holds the
\* workspace; the last one in the list is the one the map keeps.
EmbeddingGroups(gs, wid) ==
  {i \in 1..Len(gs) : \E k \in 1..Len(gs[i].emb) : gs[i].emb[k].id = wid}

\* The loop body of ListWorkspaces: workspace := ws, then the group annotation.
AnnotateWorkspace(gs, ws) ==
  IF ws.GroupID # ""
    THEN IF ws.GroupName = NoName /\ ws.GroupID \in DOMAIN groupMap(gs)
           THEN [ws EXCEPT !.GroupName = groupMap(gs)[ws.GroupID].name]
           ELSE ws
    ELSE IF EmbeddingGroups(gs, ws.id) # {}
           THEN LET i == CHOOSE m \in EmbeddingGroups(gs, ws.id) :
                            \A n \in EmbeddingGroups(gs, ws.id) : n <= m
                IN [ws EXCEPT !.GroupID = gs[i].id, !.GroupName = gs[i].name]
           ELSE ws

ListWorkspaces(gs, wss) == [i \in 1..Len(wss) |-> AnnotateWorkspace(gs, wss[i])]

RECURSIVE getFullGroupPathReversed(_, _, _, _)
getFullGroupPathReversed(gm, pm, currentID, path) ==
  IF currentID # "" /\ currentID \in DOMAIN gm
    THEN getFullGroupPathReversed(gm, pm, groupParentMap(pm, currentID),
                                  path \o <<gm[currentID].name>>)
    ELSE path

\* for currentID != "" { if name, ok := groupMap[currentID]; ok {
\*   path = append([]string{name}, path...); currentID = groupParentMap[currentID] } else { break } }
RECURSIVE getFullGroupPathFrom(_, _, _, _)
getFullGroupPathFrom(gm, pm, currentID, path) ==
  IF currentID # "" /\ currentID \in DOMAIN gm
    THEN getFullGroupPathFrom(gm, pm, groupParentMap(pm, currentID),
                              <<gm[currentID].name>> \o path)
    ELSE path

getFullGroupPath(gm, pm, groupID) ==
  IF groupID = "" THEN <<>>
  ELSE Join(getFullGroupPathFrom(gm, pm, groupID, <<>>), PathSep)

\* The entry GetUserWorkspaces appends for a workspace of ListWorkspaces.
UserWorkspaceAccess(gm, pm, ws) ==
  [WorkspaceID |-> ws.id, WorkspaceName |-> ws.name, Permission |-> ws.grant,
   GroupID |-> ws.GroupID, GroupName |-> ws.GroupName,
   GroupPath |-> getFullGroupPath(gm, pm, ws.GroupID)]

\* if permission, ok := workspace.Embedded.Permissions[userID]; ok
HasExplicitGrant(ws) == ws.grant # NoGrant

\* GetUserWorkspaces from its three read-lock sections: gsList is the group
\* list ListWorkspaces read (line 352), wss the workspace list it read (382),
\* gsPath the group list read for the paths (576).
GetUserWorkspaces(gsList, wss, gsPath) ==
  LET sel == SelectSeq(ListWorkspaces(gsList, wss), HasExplicitGrant)
  IN [i \in 1..Len(sel) |->
        UserWorkspaceAccess(groupMap(gsPath), groupParentMapOf(gsPath), sel[i])]

RECURSIVE calculateGroupPermissionFrom(_, _, _, _)
calculateGroupPermissionFrom(gm, pm, currentGroupID, effectivePermission) ==
  IF currentGroupID # "" /\ currentGroupID \in DOMAIN gm
    THEN calculateGroupPermissionFrom(gm, pm, groupParentMap(pm, currentGroupID),
                                      MergeGroup(effectivePermission, gm[currentGroupID]))
    ELSE effectivePermission

calculateGroupPermission(gm, pm, groupID) ==
  calculateGroupPermissionFrom(gm, pm, groupID, "read")

calculateWorkspacePermissionExplicitOnly(gm, pm, workspace) ==
  IF workspace.grant # NoGrant
    THEN getHighestPermission("read", workspace.grant) ELSE "read"

calculateWorkspacePermission(gm, pm, workspace) ==
  LET e1 == IF workspace.grant # NoGrant
              THEN getHighestPermission("read", workspace.grant) ELSE "read"
  IN IF workspace.GroupID # ""
       THEN getHighestPermission(e1, calculateGroupPermission(gm, pm, workspace.GroupID))
       ELSE e1

\* workspacesByGroupID[group.ID] of the ListWorkspaces result
workspacesByGroupID(all, gid) == SelectSeq(all, LAMBDA w : w.GroupID = gid)

\* The loop body of GetUserGroupAccess for one group: CurrentPermission, and
\* the embedded workspaces replaced if workspacesByGroupID has the group's id.
GroupAccess(gm, pm, all, group) ==
  LET wsList == workspacesByGroupID(all, group.id)
  IN [group EXCEPT
        !.cur = calculateGroupPermission(gm, pm, group.id),
        !.emb = IF wsList # <<>>
                  THEN [i \in 1..Len(wsList) |->
                          [id |-> wsList[i].id,
                           cur |-> calculateWorkspacePermission(gm, pm, wsList[i])]]
                  ELSE @]

\* GetUserGroupAccess from its three read-lock sections: gs is the group list
\* read first (988), gsList the group list ListWorkspaces read (352), wss the
\* workspace list it read (382).
GetUserGroupAccess(gs, gsList, wss) ==
  LET all == ListWorkspaces(gsList, wss)
      out == [i \in 1..Len(gs) |->
                GroupAccess(groupMap(gs), groupParentMapOf(gs), all, gs[i])]
  IN SelectSeq(out, LAMBDA grp : grp.cur # "")

MaxAccessRefreshes == 1

\* The lists each operation read: by ListWorkspaces inside GetUserWorkspaces
\* (groups at line 352, workspaces at 382), for the paths of GetUserWorkspaces
\* (576), first in GetUserGroupAccess (988), and by ListWorkspaces inside
\* GetUserGroupAccess (352, 382).
NoSeen ==
  [uwList |-> <<>>, uwWs |-> <<>>, uwPath |-> <<>>,
   gaMaps |-> <<>>, gaList |-> <<>>, gaWs |-> <<>>]

AccessIdle ==
  /\ aGroups = <<>>
  /\ aWs = <<>>
  /\ aOp = ""
  /\ aLine = 0
  /\ aSeen = NoSeen
  /\ aRefreshes = 0
  /\ aFailed = ""
  /\ aCalled = {}
  /\ uw = <<>>
  /\ ga = <<>>

AccessInit ==
  /\ aGroups \in AccessGroupSets
  /\ aWs \in AccessWorkspaceLists
  /\ aOp = ""
  /\ aLine = 0
  /\ aSeen = NoSeen
  /\ aRefreshes = 0
  /\ aFailed = ""
  /\ aCalled = {}
  /\ uw = <<>>
  /\ ga = <<>>

\* The handler calls one operation after the other and returns at the first
\* error. An operation that follows a refresh starts on a cache the model
\* also starts from, so none is started after one.
AccessCanStart(o) ==
  /\ aOp = ""
  /\ aFailed = ""
  /\ aRefreshes = 0
  /\ o \notin aCalled

\* What a refresh writes to c.cache.workspaceGroups when the upstream has
\* changed group g3 since the refresh before: moved under g1 and emptied, or
\* given the default permission write and the embedded workspace w1.
RefreshedGroupLists(gs) ==
  {[gs EXCEPT ![3] = [@ EXCEPT !.parent = "g1", !.emb = <<>>]],
   [gs EXCEPT ![3] = [@ EXCEPT !.default = "write", !.emb = <<Embedded("w1", "")>>]]} \ {gs}

\* What a refresh writes to c.cache.workspaces when the upstream has moved
\* workspace w1 (the last of the list) into group g1 and dropped the user's
\* grant on it since the refresh before.
RefreshedWorkspaceLists(wss) ==
  {[wss EXCEPT ![Len(wss)] = [@ EXCEPT !.GroupID = "g1", !.grant = NoGrant]]} \ {wss}

\* A RefreshCacheIfNeeded call between two read-lock sections of the
\* operation under way (the operation's own call that finds the TTL expired,
\* or another goroutine's on the same Client) commits a new group list, a new
\* workspace list, or both.
AccessRefresh ==
  /\ aOp # ""
  /\ aRefreshes < MaxAccessRefreshes
  /\ aGroups' \in {aGroups} \cup RefreshedGroupLists(aGroups)
  /\ aWs' \in {aWs} \cup RefreshedWorkspaceLists(aWs)
  /\ <<aGroups', aWs'>> # <<aGroups, aWs>>
  /\ aRefreshes' = aRefreshes + 1
  /\ UNCHANGED <<aOp, aLine, aSeen, aFailed, aCalled, uw, ga>>

\* GetUserWorkspaces, lines 565-570, and ListWorkspaces, lines 347-380:
\* the RefreshCacheIfNeeded calls and the group list read by
\* ListWorkspaceGroups (352); ok = FALSE: one of the RefreshCacheIfNeeded
\* calls failed and the operation returns (nil, err).
GetUserWorkspacesList(ok) ==
  /\ AccessCanStart("GetUserWorkspaces")
  /\ IF ok THEN /\ aOp' = "GetUserWorkspaces"
                /\ aLine' = 382
                /\ aSeen' = [aSeen EXCEPT !.uwList = aGroups]
                /\ UNCHANGED aFailed
           ELSE /\ aFailed' = "GetUserWorkspaces"
                /\ UNCHANGED <<aOp, aLine, aSeen>>
  /\ UNCHANGED <<aGroups, aWs, aRefreshes, aCalled, uw, ga>>

\* ListWorkspaces inside GetUserWorkspaces, lines 382-410: the read-lock
\* section that reads c.cache.workspaces.
GetUserWorkspacesRead ==
  /\ aOp = "GetUserWorkspaces"
  /\ aLine = 382
  /\ aLine' = 576
  /\ aSeen' = [aSeen EXCEPT !.uwWs = aWs]
  /\ UNCHANGED <<aGroups, aWs, aOp, aRefreshes, aFailed, aCalled, uw, ga>>

\* GetUserWorkspaces, lines 576-636: ListWorkspaceGroups (ok = FALSE: its
\* RefreshCacheIfNeeded failed), the two maps, the loop over the workspaces
\* ListWorkspaces returned.
CallGetUserWorkspaces(ok) ==
  /\ aOp = "GetUserWorkspaces"
  /\ aLine = 576
  /\ aOp' = ""
  /\ aLine' = 0
  /\ IF ok THEN /\ uw' = GetUserWorkspaces(aSeen.uwList, aSeen.uwWs, aGroups)
                /\ aSeen' = [aSeen EXCEPT !.uwPath = aGroups]
                /\ aCalled' = aCalled \cup {"GetUserWorkspaces"}
                /\ UNCHANGED aFailed
           ELSE /\ aFailed' = "GetUserWorkspaces"
                /\ UNCHANGED <<uw, aSeen, aCalled>>
  /\ UNCHANGED <<aGroups, aWs, aRefreshes, ga>>

\* GetUserGroupAccess, lines 988-991: ListWorkspaceGroups
GetUserGroupAccessGroups(ok) ==
  /\ AccessCanStart("GetUserGroupAccess")
  /\ IF ok THEN /\ aOp' = "GetUserGroupAccess"
                /\ aLine' = 352
                /\ aSeen' = [aSeen EXCEPT !.gaMaps = aGroups]
                /\ UNCHANGED aFailed
           ELSE /\ aFailed' = "GetUserGroupAccess"
                /\ UNCHANGED <<aOp, aLine, aSeen>>
  /\ UNCHANGED <<aGroups, aWs, aRefreshes, aCalled, uw, ga>>

\* GetUserGroupAccess, lines 994-997, and ListWorkspaces, lines 347-380: the
\* RefreshCacheIfNeeded calls and the group list read by ListWorkspaceGroups
\* (352); ok = FALSE: one of the calls failed.
GetUserGroupAccessList(ok) ==
  /\ aOp = "GetUserGroupAccess"
  /\ aLine = 352
  /\ IF ok THEN /\ aLine' = 382
                /\ aSeen' = [aSeen EXCEPT !.gaList = aGroups]
                /\ UNCHANGED <<aOp, aFailed>>
           ELSE /\ aOp' = ""
                /\ aLine' = 0
                /\ aFailed' = "GetUserGroupAccess"
                /\ UNCHANGED aSeen
  /\ UNCHANGED <<aGroups, aWs, aRefreshes, aCalled, uw, ga>>

\* ListWorkspaces inside GetUserGroupAccess, lines 382-410 (the read-lock
\* section that reads c.cache.workspaces), then GetUserGroupAccess, lines
\* 1000-1099: the maps and the loop over the groups read at 988.
CallGetUserGroupAccess ==
  /\ aOp = "GetUserGroupAccess"
  /\ aLine = 382
  /\ aOp' = ""
  /\ aLine' = 0
  /\ ga' = GetUserGroupAccess(aSeen.gaMaps, aSeen.gaList, aWs)
  /\ aSeen' = [aSeen EXCEPT !.gaWs = aWs]
  /\ aCalled' = aCalled \cup {"GetUserGroupAccess"}
  /\ UNCHANGED <<aGroups, aWs, aRefreshes, aFailed, uw>>

notAccessVars ==
  <<cacheSpecVars, copyVars, permVars, wuVars, fieldVars, ctxVars, walkVars, hierVars, nameVars>>

NextAccess ==
  \/ \E ok \in BOOLEAN : GetUserWorkspacesList(ok) /\ UNCHANGED notAccessVars
  \/ GetUserWorkspacesRead /\ UNCHANGED notAccessVars
  \/ \E ok \in BOOLEAN : CallGetUserWorkspaces(ok) /\ UNCHANGED notAccessVars
  \/ \E ok \in BOOLEAN : GetUserGroupAccessGroups(ok) /\ UNCHANGED notAccessVars
  \/ \E ok \in BOOLEAN : GetUserGroupAccessList(ok) /\ UNCHANGED notAccessVars
  \/ CallGetUserGroupAccess /\ UNCHANGED notAccessVars
  \/ AccessRefresh /\ UNCHANGED notAccessVars

\* ------------------------------------ SpecWorkspaceUsers: GetWorkspaceUsers
UserIDs == {"u1", "u2", "x"}
\* the users the team list can hold; "x" is in no team list
TeamUsers ==
  {[UserID |-> "u1", FullName |-> "Ann", Email |-> "ann@example.org"],
   [UserID |-> "u1", FullName |-> "Ann B", Email |-> "annb@example.org"],
   [UserID |-> "u2", FullName |-> "Bob", Email |-> "bob@example.org"],
   [UserID |-> "u2", FullName |-> "amy", Email |-> "amy@example.org"]}
\* the cached user lists, in any order the upstream may send
UserLists == {<<>>} \cup {<<a>> : a \in TeamUsers} \cup {<<a, b>> : a, b \in TeamUsers}

\* the bytes of the full names of TeamUsers
FullNameBytes(name) ==
  CASE name = "Ann" -> <<65, 110, 110>>
    [] name = "Ann B" -> <<65, 110, 110, 32, 66>>
    [] name = "Bob" -> <<66, 111, 98>>
    [] name = "amy" -> <<97, 109, 121>>
    [] OTHER -> <<>>

\* strings.ToLower on ASCII bytes
ToLower(bytes) ==
  [i \in 1..Len(bytes) |-> IF bytes[i] \in 65..90 THEN bytes[i] + 32 ELSE bytes[i]]

\* strings.ToLower(users[i].FullName) < strings.ToLower(users[j].FullName)
usersLess(a, b) ==
  StrLess(ToLower(FullNameBytes(a.FullName)), ToLower(FullNameBytes(b.FullName)))

\* sort.Slice on at most 12 elements is an insertion sort: the element goes
\* left while it is less than the one before it
RECURSIVE usersInsert(_, _)
usersInsert(sorted, u) ==
  IF sorted = <<>> \/ ~usersLess(u, sorted[Len(sorted)])
    THEN Append(sorted, u)
    ELSE Append(usersInsert(SubSeq(sorted, 1, Len(sorted) - 1), u), sorted[Len(sorted)])

\* users := copy of c.cache.users; sort.Slice(users, ...); return users, nil
RECURSIVE ListUsers(_)
ListUsers(users) ==
  IF users = <<>> THEN <<>>
  ELSE usersInsert(ListUsers(SubSeq(users, 1, Len(users) - 1)), users[Len(users)])
PermissionMaps == UNION {[ks -> {"read", "full", ""}] : ks \in SUBSET UserIDs}

\* for _, u := range allUsers { userMap[u.UserID] = u }
userMap(users) ==
  [id \in {users[i].UserID : i \in 1..Len(users)} |->
     users[CHOOSE i \in 1..Len(users) :
             users[i].UserID = id /\ \A j \in (i + 1)..Len(users) : users[j].UserID # id]]

WorkspaceUserEntryNoFallback(um, userID, permission) ==
  [UserID |-> userID,
   FullName |-> IF userID \in DOMAIN um THEN um[userID].FullName ELSE "",
   Email |-> IF userID \in DOMAIN um THEN um[userID].Email ELSE "",
   Permission |-> permission]

\* if user, ok := userMap[userID]; ok { ... } else { ... "Unknown User" ... }
WorkspaceUserEntry(um, userID, permission) ==
  IF userID \in DOMAIN um
    THEN [UserID |-> userID, FullName |-> um[userID].FullName,
          Email |-> um[userID].Email, Permission |-> permission]
    ELSE [UserID |-> userID, FullName |-> "Unknown User",
          Email |-> "", Permission |-> permission]

\* for userID, permission := range workspace.Embedded.Permissions: the keys
\* come in any order.
KeyOrders(perms) ==
  {o \in [1..Cardinality(DOMAIN perms) -> DOMAIN perms] :
     \A i, j \in DOMAIN o : o[i] = o[j] => i = j}

GetWorkspaceUsers(perms, users, order) ==
  [i \in 1..Len(order) |-> WorkspaceUserEntry(userMap(users), order[i], perms[order[i]])]

WorkspaceUsersIdle ==
  /\ wuPerms = <<>>
  /\ wuUsers = <<>>
  /\ wuUp = [workspace |-> TRUE, users |-> TRUE]
  /\ wuRes = "none"
  /\ wuOut = <<>>

WorkspaceUsersInit ==
  /\ wuPerms \in PermissionMaps
  /\ wuUsers \in UserLists
  /\ wuUp = [workspace |-> TRUE, users |-> TRUE]
  /\ wuRes = "none"
  /\ wuOut = <<>>

\* GetWorkspaceByID fails: return nil, err
WorkspaceUsersNoWorkspace ==
  /\ wuRes = "none"
  /\ wuUp' = [workspace |-> FALSE, users |-> TRUE]
  /\ wuRes' = "err"
  /\ UNCHANGED <<wuPerms, wuUsers, wuOut>>

\* len(workspace.Embedded.Permissions) == 0: return []WorkspaceUser{}, nil
WorkspaceUsersNoPermissions ==
  /\ wuRes = "none"
  /\ DOMAIN wuPerms = {}
  /\ wuRes' = "ok"
  /\ wuOut' = <<>>
  /\ UNCHANGED <<wuPerms, wuUsers, wuUp>>

\* ListUsers fails: return nil, err
WorkspaceUsersNoUsers ==
  /\ wuRes = "none"
  /\ DOMAIN wuPerms # {}
  /\ wuUp' = [workspace |-> TRUE, users |-> FALSE]
  /\ wuRes' = "err"
  /\ UNCHANGED <<wuPerms, wuUsers, wuOut>>

\* both calls succeed: allUsers is the sorted list ListUsers returns; one
\* entry per key of the permission map
WorkspaceUsersReturn(order) ==
  /\ wuRes = "none"
  /\ DOMAIN wuPerms # {}
  /\ wuRes' = "ok"
  /\ wuOut' = GetWorkspaceUsers(wuPerms, ListUsers(wuUsers), order)
  /\ UNCHANGED <<wuPerms, wuUsers, wuUp>>

NextWorkspaceUsers ==
  \/ WorkspaceUsersNoWorkspace /\ UNCHANGED <<cacheSpecVars, copyVars, permVars, accessVars, fieldVars, ctxVars, walkVars, hierVars, nameVars>>
  \/ WorkspaceUsersNoPermissions /\ UNCHANGED <<cacheSpecVars, copyVars, permVars, accessVars, fieldVars, ctxVars, walkVars, hierVars, nameVars>>
  \/ WorkspaceUsersNoUsers /\ UNCHANGED <<cacheSpecVars, copyVars, permVars, accessVars, fieldVars, ctxVars, walkVars, hierVars, nameVars>>
  \/ \E order \in KeyOrders(wuPerms) :
       WorkspaceUsersReturn(order) /\ UNCHANGED <<cacheSpecVars, copyVars, permVars, accessVars, fieldVars, ctxVars, walkVars, hierVars, nameVars>>


\* ------------------------------------- SpecFields: fetchFields' WorkspaceNames
\* A Go slice: nil, or its items.
NilSlice == [nil |-> TRUE, items |-> <<>>]
Slice(items) == [nil |-> FALSE, items |-> items]

FieldWorkspaceIDs == {"w1", "w2", "w9"}
\* the workspaces a list can hold; "w9" is in no list, "w1" may come twice
FieldWorkspaces ==
  {[id |-> "w1", name |-> "Alpha"], [id |-> "w1", name |-> "Alpha (copy)"],
   [id |-> "w2", name |-> "Beta"]}
FieldWorkspaceLists ==
  {<<>>} \cup {<<a>> : a \in FieldWorkspaces} \cup {<<a, b>> : a, b \in FieldWorkspaces}
IDSlices ==
  {NilSlice} \cup {Slice(<<>>)} \cup {Slice(<<a>>) : a \in FieldWorkspaceIDs}
    \cup {Slice(<<a, b>>) : a, b \in FieldWorkspaceIDs}
\* Embedded.Workspaces is kept as the slice of its WorkspaceID members.
FieldItems == [IsTeamField : BOOLEAN, AllWorkspaceIDs : IDSlices, Workspaces : IDSlices]

\* for _, ws := range workspaces { workspaceMap[ws.ID] = ws.Name }
workspaceMap(wss) ==
  [id \in {wss[i].id : i \in 1..Len(wss)} |->
     wss[CHOOSE i \in 1..Len(wss) :
           wss[i].id = id /\ \A j \in (i + 1)..Len(wss) : wss[j].id # id].name]

\* var workspaceIDs []string; if field.IsTeamField && AllWorkspaceIDs != nil {...}
\* else if !field.IsTeamField && Embedded.Workspaces != nil {...}
workspaceIDsOf(field) ==
  IF field.IsTeamField /\ ~field.AllWorkspaceIDs.nil THEN field.AllWorkspaceIDs.items
  ELSE IF ~field.IsTeamField /\ ~field.Workspaces.nil THEN field.Workspaces.items
  ELSE <<>>

RECURSIVE namesOfWithPlaceholder(_, _)
namesOfWithPlaceholder(wm, ids) ==
  IF ids = <<>> THEN <<>>
  ELSE <<IF Head(ids) \in DOMAIN wm THEN wm[Head(ids)] ELSE "">>
         \o namesOfWithPlaceholder(wm, Tail(ids))

\* for _, wsID := range workspaceIDs { if name, ok := workspaceMap[wsID]; ok { append } }
RECURSIVE namesOf(_, _)
namesOf(wm, ids) ==
  IF ids = <<>> THEN <<>>
  ELSE (IF Head(ids) \in DOMAIN wm THEN <<wm[Head(ids)]>> ELSE <<>>)
         \o namesOf(wm, Tail(ids))

\* if len(workspaceIDs) > 0 { fieldsWithNames[i].WorkspaceNames = workspaceNames }
WorkspaceNamesOf(wm, field) ==
  IF Len(workspaceIDsOf(field)) > 0
    THEN Slice(namesOf(wm, workspaceIDsOf(field)))
    ELSE NilSlice

FieldsIdle ==
  /\ fWs = <<>>
  /\ fField = [IsTeamField |-> FALSE, AllWorkspaceIDs |-> NilSlice, Workspaces |-> NilSlice]
  /\ fDone = FALSE
  /\ fOut = NilSlice

FieldsInit ==
  /\ fWs \in FieldWorkspaceLists
  /\ fField \in FieldItems
  /\ fDone = FALSE
  /\ fOut = NilSlice

\* the loop body of fetchFields for one item of the search response
DecorateField ==
  /\ ~fDone
  /\ fDone' = TRUE
  /\ fOut' = WorkspaceNamesOf(workspaceMap(fWs), fField)
  /\ UNCHANGED <<fWs, fField>>

NextFields ==
  DecorateField /\ UNCHANGED <<cacheSpecVars, copyVars, permVars, accessVars, wuVars, ctxVars, walkVars, hierVars, nameVars>>


\* ------------------------------ SpecCancel: RefreshCacheIfNeeded(ctx), ctx cancelled
CtxIdle ==
  /\ cancelled = [p \in Callers |-> FALSE]
  /\ cancelledInFlight = [p \in Callers |-> FALSE]

\* the context of the caller whose refresh is in flight is done
CtxDone == writer \in Callers /\ cancelled[writer]

\* a fetch of the refresh in flight has not returned yet: fetchUsers,
\* fetchWorkspaces, fetchWorkspaceGroups before their request has answered,
\* fetchFields anywhere between its call and its return (the reads of
\* c.cache.workspaces at 878 and 887 included, its search request still to come)
FetchInFlight == \E k \in Colls : g[k] \in {"run", "prefetch", "range", "search"}

\* http.NewRequestWithContext(ctx, ...); c.httpClient.Do(req); Decode(resp.Body):
\* a request whose context is done before it has returned fails.
FetchSucceeds(ok, ctxDone) == ok /\ ~ctxDone

\* The caller's context is cancelled (the request handler's client went away).
Cancel(p) ==
  /\ ~Panicked
  /\ ~cancelled[p]
  /\ pc[p] \in {"check", "wantLock", "wait"}
  /\ cancelled' = [cancelled EXCEPT ![p] = TRUE]
  /\ cancelledInFlight' = [cancelledInFlight EXCEPT ![p] = writer = p /\ FetchInFlight]
  /\ UNCHANGED <<cacheSpecVars, copyVars, permVars, accessVars, wuVars, fieldVars, walkVars, hierVars, nameVars>>

\* The upstream calls of the refresh in flight, made with the caller's context.
FetchStep ==
  \/ \E k \in {"users", "workspaceGroups"}, ok \in BOOLEAN :
       GoFetch(k, FetchSucceeds(ok, CtxDone))
  \/ \E ok \in BOOLEAN, n \in 0..1 : GoFetchWorkspaces(FetchSucceeds(ok, CtxDone), n)
  \/ \E ok \in BOOLEAN : FieldsPrefetch(FetchSucceeds(ok, CtxDone))
  \/ \E ok \in BOOLEAN : FieldsSearch(FetchSucceeds(ok, CtxDone))

\* The calls of SpecCancel all fall into one TTL period after the start.
NextCancel ==
  \/ \E p \in Callers : Start(p, "RefreshCacheIfNeeded")
  \/ \E p \in Callers : RCheck(p)
  \/ \E p \in Callers : RLockRecheck(p)
  \/ FetchStep
  \/ WorkspacesAssign
  \/ \E seeNew \in BOOLEAN : FieldsLenCheck(seeNew)
  \/ \E seeNew \in BOOLEAN : FieldsRange(seeNew)
  \/ \E crash \in BOOLEAN : FieldsRangeTorn(crash)
  \/ \E p \in Callers : RWait(p)
  \/ \E p \in Callers : Cancel(p)

\* A request whose context is done returns; the goroutine that made it goes
\* on to its errChan send and wg.Done; the caller in wg.Wait goes on when the
\* four goroutines are done. A request whose context is not done may never
\* return (the http.Client has no timeout).
FairCancel ==
  /\ WF_vars(CtxDone /\ FetchStep)
  /\ WF_vars(CtxDone /\ WorkspacesAssign)
  /\ WF_vars(CtxDone /\ \E seeNew \in BOOLEAN : FieldsLenCheck(seeNew))
  /\ WF_vars(CtxDone /\ \E seeNew \in BOOLEAN : FieldsRange(seeNew))
  /\ WF_vars(\E p \in Callers : RWait(p))


\* -------- SpecWalk: getFullGroupPath, calculateGroupPermission, calculateWorkspacePermission
MaxPathLen == 3

\* The group sets of SpecWalk: groups A and B, no parent cycle; a parent id
\* may name a group that is not in the set.
WalkParents ==
  {pp \in {"", UnknownGroup, "B"} \X {"", UnknownGroup, "A"} : pp # <<"B", "A">>}

WalkGroupSets ==
  {[i \in GroupIDs |->
      IF i = "A"
        THEN [parent |-> pp[1], default |-> da, grant |-> ra, name |-> NameA]
        ELSE [parent |-> pp[2], default |-> db, grant |-> rb, name |-> NameB]] :
     pp \in WalkParents,
     da \in {"", "read", "write", "admin"}, db \in {"", "read", "write", "admin"},
     ra \in {NoGrant, "comment", "full"}, rb \in {NoGrant, "comment", "full"}}

WalkWorkspaces ==
  [GroupID : GroupIDs \cup {"", UnknownGroup},
   grant : {NoGrant, "read", "comment", "full", "admin"}]

WalkIdle ==
  /\ pTarget = ""
  /\ pCur = ""
  /\ pPath = <<>>
  /\ pOut = <<>>
  /\ pState = "idle"
  /\ wsRec = [GroupID |-> "", grant |-> NoGrant]
  /\ wsEff = "read"
  /\ wsState = "idle"

\* the locals of the permission walk, of the path walk and of
\* calculateWorkspacePermission once the call has returned and the next begins
WalkLocalsDropped ==
  /\ wTarget' = ""
  /\ wCur' = ""
  /\ wEff' = "read"
  /\ wState' = "idle"
  /\ UNCHANGED groups

PathLocalsDropped ==
  /\ pTarget' = ""
  /\ pCur' = ""
  /\ pPath' = <<>>
  /\ pOut' = <<>>
  /\ pState' = "idle"

WorkspaceLocalsDropped ==
  /\ wsRec' = [GroupID |-> "", grant |-> NoGrant]
  /\ wsEff' = "read"
  /\ wsState' = "idle"

\* no walk is under way
WalkQuiet == wState # "walk" /\ pState # "walk" /\ wsState # "group"

\* calculateGroupPermission(group.ID), called from the group loop
GroupWalkStart(gid) ==
  /\ WalkQuiet
  /\ WalkStart(gid)
  /\ PathLocalsDropped
  /\ WorkspaceLocalsDropped

GroupWalkStep ==
  /\ WalkStep
  /\ UNCHANGED walkVars

\* getFullGroupPath(groupID): if groupID == "" { return "" }; currentID := groupID
PathStart(gid) ==
  /\ WalkQuiet
  /\ pTarget' = gid
  /\ pCur' = gid
  /\ pPath' = <<>>
  /\ pOut' = <<>>
  /\ pState' = IF gid = "" THEN "done" ELSE "walk"
  /\ WalkLocalsDropped
  /\ WorkspaceLocalsDropped

\* for currentID != "" { if name, ok := groupMap[currentID]; ok { prepend; up } else { break } }
\* return strings.Join(path, " > ")
PathStep ==
  /\ pState = "walk"
  /\ IF pCur # "" /\ pCur \in DOMAIN groups
       THEN /\ Len(pPath) < MaxPathLen
            /\ pPath' = <<groups[pCur].name>> \o pPath
            /\ pCur' = groupParentMap(parentsOf(groups), pCur)
            /\ UNCHANGED <<pTarget, pOut, pState>>
       ELSE /\ pOut' = Join(pPath, PathSep)
            /\ pState' = "done"
            /\ UNCHANGED <<pTarget, pCur, pPath>>
  /\ UNCHANGED <<wsRec, wsEff, wsState, permVars>>

explicitPermissionIgnored(workspace) == "read"

\* effectivePermission := PermissionRead; if permStr, ok := workspace.Embedded.Permissions[userID]; ok {...}
explicitPermission(workspace) ==
  IF workspace.grant # NoGrant
    THEN getHighestPermission("read", workspace.grant) ELSE "read"

\* calculateWorkspacePermission(workspace) up to the call of calculateGroupPermission
WorkspaceStart(ws) ==
  /\ WalkQuiet
  /\ wsRec' = ws
  /\ wsEff' = explicitPermission(ws)
  /\ IF ws.GroupID # ""
       THEN /\ wsState' = "group"
            /\ WalkStart(ws.GroupID)
       ELSE /\ wsState' = "done"
            /\ WalkLocalsDropped
  /\ PathLocalsDropped

\* effectivePermission = getHighestPermission(effectivePermission, groupPermission); return
WorkspaceMerge ==
  /\ wsState = "group"
  /\ wState = "done"
  /\ wsEff' = getHighestPermission(wsEff, wEff)
  /\ wsState' = "done"
  /\ UNCHANGED <<wsRec, pTarget, pCur, pPath, pOut, pState, permVars>>

notWalkVars == <<cacheSpecVars, copyVars, accessVars, wuVars, fieldVars, ctxVars, hierVars, nameVars>>

NextWalk ==
  \/ \E gid \in GroupIDs : GroupWalkStart(gid) /\ UNCHANGED notWalkVars
  \/ GroupWalkStep /\ UNCHANGED notWalkVars
  \/ \E gid \in GroupIDs \cup {"", UnknownGroup} : PathStart(gid) /\ UNCHANGED notWalkVars
  \/ PathStep /\ UNCHANGED notWalkVars
  \/ \E ws \in WalkWorkspaces : WorkspaceStart(ws) /\ UNCHANGED notWalkVars
  \/ WorkspaceMerge /\ UNCHANGED notWalkVars

\* The loops run: a walk under way takes its next step.
FairWalk ==
  /\ WF_vars(GroupWalkStep /\ UNCHANGED notWalkVars)
  /\ WF_vars(PathStep /\ UNCHANGED notWalkVars)

WalkInit ==
  /\ groups \in WalkGroupSets
  /\ wTarget = ""
  /\ wCur = ""
  /\ wEff = "read"
  /\ wState = "idle"
  /\ WalkIdle

\* SpecPerm with its loop running: every group set of SpecPerm, cycles included.
FairPerm == WF_vars(WalkStep /\ UNCHANGED <<cacheSpecVars, copyVars, laterVars>>)


\* -------- SpecHierarchy: GetWorkspaceHierarchy
\* The numbers of cached groups SpecHierarchy draws: sort.Slice sorts up to 12
\* elements by insertion and more by partitioning first.
GroupCounts == {0, 1, 2, 3, 13}

\* Group lists of n groups; a group's id is its place in the upstream list.
HierarchyListsOf(n, parents, orders) ==
  {[i \in 1..n |-> [id |-> i, ParentID |-> f[i][1], Order |-> f[i][2]]] :
     f \in [1..n -> parents \X orders]}

HierarchyLists ==
  UNION {IF n <= 3 THEN HierarchyListsOf(n, {"", "root", "g1"}, {0, 1})
                   ELSE HierarchyListsOf(n, {""}, {0, 1}) : n \in GroupCounts}

\* less of the sort.Slice call: hierarchy[parentID][i].Order < hierarchy[parentID][j].Order
\* (indices from 0 as in the code)
hLess(d, i, j) == d[i + 1].Order < d[j + 1].Order

hSwap(d, i, j) == [d EXCEPT ![i + 1] = d[j + 1], ![j + 1] = d[i + 1]]

\* sort.Slice (Go 1.21, pdqsort_func) as it runs on up to 13 elements.
\* for j := i; j > a && less(data[j], data[j-1]); j-- { swap(j, j-1) }
RECURSIVE insertionInner(_, _, _)
insertionInner(d, a, j) ==
  IF j > a /\ hLess(d, j, j - 1) THEN insertionInner(hSwap(d, j, j - 1), a, j - 1) ELSE d

RECURSIVE insertionSortFrom(_, _, _, _)
insertionSortFrom(d, a, b, i) ==
  IF i < b THEN insertionSortFrom(insertionInner(d, a, i), a, b, i + 1) ELSE d

insertionSort(d, a, b) == insertionSortFrom(d, a, b, a + 1)

\* order2: <<a, b, swaps>> with data[a] not after data[b]
order2(d, a, b, swaps) == IF hLess(d, b, a) THEN <<b, a, swaps + 1>> ELSE <<a, b, swaps>>

\* median of three: <<index of the median, swaps>>
median(d, a, b, c) ==
  LET r1 == order2(d, a, b, 0)
      r2 == order2(d, r1[2], c, r1[3])
      r3 == order2(d, r1[1], r2[1], r2[3])
  IN <<r3[2], r3[3]>>

\* choosePivot for fewer than 50 elements: the median of the elements at the
\* quarter points; the hint is increasing when no swap was needed
choosePivot(d, a, b) ==
  LET l == b - a
      i == a + (l \div 4)
      j == a + (l \div 4) * 2
      k == a + (l \div 4) * 3
      m == median(d, i, j, k)
  IN IF l >= 8 THEN [pivot |-> m[1], increasing |-> m[2] = 0]
               ELSE [pivot |-> j, increasing |-> TRUE]

\* partialInsertionSort for fewer than 50 elements: true if and only if the
\* range is sorted already; the range is left as it is
partialInsertionSort(d, a, b) == \A i \in (a + 1)..(b - 1) : ~hLess(d, i, i - 1)

RECURSIVE scanUp(_, _, _, _)
scanUp(d, a, i, j) == IF i <= j /\ hLess(d, i, a) THEN scanUp(d, a, i + 1, j) ELSE i

RECURSIVE scanDown(_, _, _, _)
scanDown(d, a, i, j) == IF i <= j /\ ~hLess(d, j, a) THEN scanDown(d, a, i, j - 1) ELSE j

RECURSIVE partitionLoop(_, _, _, _)
partitionLoop(d, a, i, j) ==
  LET i2 == scanUp(d, a, i, j)
      j2 == scanDown(d, a, i2, j)
  IN IF i2 > j2 THEN [data |-> d, j |-> j2]
                ELSE partitionLoop(hSwap(d, i2, j2), a, i2 + 1, j2 - 1)

\* partition: the pivot goes to a, smaller elements to the left, the others to
\* the right, the pivot to mid
partition(d, a, b, pivot) ==
  LET r == partitionLoop(hSwap(d, a, pivot), a, a + 1, b - 1)
  IN [data |-> hSwap(r.data, r.j, a), mid |-> r.j]

\* pdqsort_func: up to 12 elements by insertion; 13 elements by one partition
\* (or nothing at all if they are sorted already), then both sides by insertion
RECURSIVE pdqsort(_, _, _)
pdqsort(d, a, b) ==
  IF b - a <= 12 THEN insertionSort(d, a, b)
  ELSE LET pv == choosePivot(d, a, b)
       IN IF pv.increasing /\ partialInsertionSort(d, a, b) THEN d
          ELSE LET p == partition(d, a, b, pv.pivot)
               IN pdqsort(pdqsort(p.data, a, p.mid), p.mid + 1, b)

sortSlice(d) == pdqsort(d, 0, Len(d))

\* parentID := group.ParentID; if parentID == "" { parentID = "root" }
hierarchyKey(group) == IF group.ParentID = "" THEN "root" ELSE group.ParentID

\* hierarchy[parentID] = append(hierarchy[parentID], group), then sort.Slice per key
GetWorkspaceHierarchy(gs) ==
  [k \in {hierarchyKey(gs[i]) : i \in 1..Len(gs)} |->
     sortSlice(SelectSeq(gs, LAMBDA grp : hierarchyKey(grp) = k))]

HierarchyIdle ==
  /\ hGroups = <<>>
  /\ hOut = <<>>
  /\ hCalled = FALSE
  /\ hErr = FALSE

HierarchyInit ==
  /\ hGroups \in HierarchyLists
  /\ hOut = <<>>
  /\ hCalled = FALSE
  /\ hErr = FALSE

\* groups, err := c.ListWorkspaceGroups(ctx); if err != nil { return nil, err };
\* ok is false when the refresh inside ListWorkspaceGroups fails
CallGetWorkspaceHierarchy(ok) ==
  /\ ~hCalled
  /\ hOut' = IF ok THEN GetWorkspaceHierarchy(hGroups) ELSE <<>>
  /\ hErr' = ~ok
  /\ hCalled' = TRUE
  /\ UNCHANGED hGroups

NextHierarchy ==
  \E ok \in BOOLEAN : CallGetWorkspaceHierarchy(ok)
    /\ UNCHANGED <<cacheSpecVars, copyVars, permVars, accessVars, wuVars, fieldVars, ctxVars, walkVars, nameVars>>


\* -------- SpecNames: the names fetchFields resolves during a refresh
WorkspaceNameSet == {"K", "M"}

\* the upstream holds workspace w1 under one of two names, or no workspace
UpstreamLists == {<<>>} \cup {<<[id |-> "w1", name |-> nm]>> : nm \in WorkspaceNameSet}

\* the ids of the field the upstream holds: a field of workspace w1
FieldIDs == <<"w1">>

NamesIdle ==
  /\ upWs = <<[id |-> "w1", name |-> "K"]>>
  /\ cWs = <<>>
  /\ wMap = <<>>
  /\ cNames = <<>>

notNameVars == <<copyVars, permVars, accessVars, wuVars, fieldVars, ctxVars, walkVars, hierVars>>

\* Between two refreshes the upstream renames, removes or adds the workspace.
UpstreamChange ==
  /\ writer = NoCaller
  /\ hist # <<>>
  /\ upWs' \in UpstreamLists \ {upWs}
  /\ UNCHANGED <<cWs, wMap, cNames>>
  /\ UNCHANGED <<cacheSpecVars, notNameVars>>

\* the workspaces goroutine: fetchWorkspaces returns what the upstream holds
NamesFetchWorkspaces(ok) ==
  /\ GoFetchWorkspacesStep(ok, Len(upWs))
  /\ UNCHANGED nameVars
  /\ UNCHANGED notNameVars

\* the workspaces goroutine: c.cache.workspaces = workspaces
NamesAssign ==
  /\ WorkspacesAssignStep
  /\ cWs' = upWs
  /\ UNCHANGED <<upWs, wMap, cNames>>
  /\ UNCHANGED notNameVars

\* fetchFields: workspaceMap := make(map[string]string), then len(c.cache.workspaces)
NamesLenCheck(seeNew) ==
  /\ FieldsLenCheckStep(seeNew)
  /\ wMap' = <<>>
  /\ UNCHANGED <<upWs, cWs, cNames>>
  /\ UNCHANGED notNameVars

\* fetchFields: the range over c.cache.workspaces fills workspaceMap from the
\* cached list or, with seeNew, from the list being assigned
NamesRange(seeNew) ==
  /\ FieldsRangeStep(seeNew)
  /\ wMap' = workspaceMap(IF seeNew THEN upWs ELSE cWs)
  /\ UNCHANGED <<upWs, cWs, cNames>>
  /\ UNCHANGED notNameVars

\* what a range past the end of the array puts into workspaceMap
TornMap == [id \in {"?"} |-> "?"]

\* fetchFields: the range reads the slice while the workspaces goroutine assigns it
NamesRangeTorn(crash) ==
  /\ FieldsRangeTornStep(crash)
  /\ wMap' = IF crash THEN wMap ELSE TornMap
  /\ UNCHANGED <<upWs, cWs, cNames>>
  /\ UNCHANGED notNameVars

\* fetchFields: the workspaces it fetched itself fill workspaceMap
NamesPrefetch(ok) ==
  /\ FieldsPrefetchStep(ok)
  /\ wMap' = IF ok THEN workspaceMap(upWs) ELSE wMap
  /\ UNCHANGED <<upWs, cWs, cNames>>
  /\ UNCHANGED notNameVars

\* fetchFields: the names of the field's workspaces, then c.cache.fields = fields
NamesSearch(ok) ==
  /\ FieldsSearchStep(ok)
  /\ cNames' = IF ok THEN namesOf(wMap, FieldIDs) ELSE cNames
  /\ UNCHANGED <<upWs, cWs, wMap>>
  /\ UNCHANGED notNameVars

NextNames ==
  \/ Tick
  \/ \E p \in Callers : Start(p, "RefreshCacheIfNeeded")
  \/ \E p \in Callers : RCheck(p)
  \/ \E p \in Callers : RLockRecheck(p)
  \/ \E k \in {"users", "workspaceGroups"}, ok \in BOOLEAN : GoFetch(k, ok)
  \/ \E ok \in BOOLEAN : NamesFetchWorkspaces(ok)
  \/ NamesAssign
  \/ \E seeNew \in BOOLEAN : NamesLenCheck(seeNew)
  \/ \E seeNew \in BOOLEAN : NamesRange(seeNew)
  \/ \E crash \in BOOLEAN : NamesRangeTorn(crash)
  \/ \E ok \in BOOLEAN : NamesPrefetch(ok)
  \/ \E ok \in BOOLEAN : NamesSearch(ok)
  \/ \E p \in Callers : RWait(p)
  \/ UpstreamChange

LaterIdle ==
  /\ AccessIdle /\ WorkspaceUsersIdle /\ FieldsIdle /\ CtxIdle /\ WalkIdle /\ HierarchyIdle
  /\ NamesIdle

Init == CacheInit /\ CopyIdle /\ PermIdle /\ LaterIdle

Spec == Init /\ [][Next]_vars

InitCopy == CacheInit /\ CopyIdle /\ PermIdle /\ LaterIdle
SpecCopy == InitCopy /\ [][NextCopy]_vars

InitPerm == CacheInit /\ CopyIdle /\ PermInit /\ LaterIdle
SpecPerm == InitPerm /\ [][NextPerm]_vars

InitAccess ==
  CacheInit /\ CopyIdle /\ PermIdle /\ AccessInit /\ WorkspaceUsersIdle /\ FieldsIdle /\ CtxIdle
    /\ WalkIdle /\ HierarchyIdle /\ NamesIdle
SpecAccess == InitAccess /\ [][NextAccess]_vars

InitWorkspaceUsers ==
  CacheInit /\ CopyIdle /\ PermIdle /\ AccessIdle /\ WorkspaceUsersInit /\ FieldsIdle /\ CtxIdle
    /\ WalkIdle /\ HierarchyIdle /\ NamesIdle
SpecWorkspaceUsers == InitWorkspaceUsers /\ [][NextWorkspaceUsers]_vars

InitFields ==
  CacheInit /\ CopyIdle /\ PermIdle /\ AccessIdle /\ WorkspaceUsersIdle /\ FieldsInit /\ CtxIdle
    /\ WalkIdle /\ HierarchyIdle /\ NamesIdle
SpecFields == InitFields /\ [][NextFields]_vars

SpecCancel == Init /\ [][NextCancel]_vars /\ FairCancel

InitWalk ==
  CacheInit /\ CopyIdle /\ AccessIdle /\ WorkspaceUsersIdle /\ FieldsIdle /\ CtxIdle /\ WalkInit
    /\ HierarchyIdle /\ NamesIdle
SpecWalk == InitWalk /\ [][NextWalk]_vars /\ FairWalk

\* The calls of SpecLive all fall into one TTL period after the start.
NextLive ==
  \/ \E p \in Callers : \E o \in OpsOf(p) : Start(p, o)
  \/ \E p \in Callers : RCheck(p)
  \/ \E p \in Callers : RLockRecheck(p)
  \/ \E k \in {"users", "workspaceGroups"}, ok \in BOOLEAN : GoFetch(k, ok)
  \/ \E ok \in BOOLEAN, n \in 0..1 : GoFetchWorkspaces(ok, n)
  \/ WorkspacesAssign
  \/ \E seeNew \in BOOLEAN : FieldsLenCheck(seeNew)
  \/ \E seeNew \in BOOLEAN : FieldsRange(seeNew)
  \/ \E crash \in BOOLEAN : FieldsRangeTorn(crash)
  \/ \E ok \in BOOLEAN : FieldsPrefetch(ok)
  \/ \E ok \in BOOLEAN : FieldsSearch(ok)
  \/ \E p \in Callers : RWait(p)
  \/ \E p \in Callers, found \in BOOLEAN : Read(p, found)

\* Every upstream call returns, with a result or an error; a goroutine that
\* can take its next step takes it; a caller waiting for the mutex gets it
\* once it is free. A handler need not call at all.
FairLive ==
  /\ \A p \in Callers :
       /\ WF_vars(RCheck(p))
       /\ WF_vars(RLockRecheck(p))
       /\ WF_vars(RWait(p))
       /\ WF_vars(\E found \in BOOLEAN : Read(p, found))
  /\ WF_vars(\E k \in {"users", "workspaceGroups"}, ok \in BOOLEAN : GoFetch(k, ok))
  /\ WF_vars(\E ok \in BOOLEAN, n \in 0..1 : GoFetchWorkspaces(ok, n))
  /\ WF_vars(WorkspacesAssign)
  /\ WF_vars(\E seeNew \in BOOLEAN : FieldsLenCheck(seeNew))
  /\ WF_vars(\E seeNew \in BOOLEAN : FieldsRange(seeNew))
  /\ WF_vars(\E ok \in BOOLEAN : FieldsPrefetch(ok))
  /\ WF_vars(\E ok \in BOOLEAN : FieldsSearch(ok))

SpecLive == Init /\ [][NextLive]_vars /\ FairLive

\* One request: the handler makes a Client and runs its operation on it; no
\* other goroutine ever holds that Client.
Handler == "h1"

NextHandler ==
  \/ Tick
  \/ \E o \in HandlerOps : Start(Handler, o)
  \/ RCheck(Handler)
  \/ RLockRecheck(Handler)
  \/ \E k \in {"users", "workspaceGroups"}, ok \in BOOLEAN : GoFetch(k, ok)
  \/ \E ok \in BOOLEAN, n \in 0..1 : GoFetchWorkspaces(ok, n)
  \/ WorkspacesAssign
  \/ \E seeNew \in BOOLEAN : FieldsLenCheck(seeNew)
  \/ \E seeNew \in BOOLEAN : FieldsRange(seeNew)
  \/ \E crash \in BOOLEAN : FieldsRangeTorn(crash)
  \/ \E ok \in BOOLEAN : FieldsPrefetch(ok)
  \/ \E ok \in BOOLEAN : FieldsSearch(ok)
  \/ RWait(Handler)
  \/ \E found \in BOOLEAN : Read(Handler, found)
  \/ \E res \in {"err", "empty", "perms"} : GetWorkspaceByID(Handler, res)

SpecHandler == Init /\ [][NextHandler]_vars

InitHierarchy ==
  CacheInit /\ CopyIdle /\ PermIdle /\ AccessIdle /\ WorkspaceUsersIdle /\ FieldsIdle /\ CtxIdle
    /\ WalkIdle /\ HierarchyInit /\ NamesIdle
SpecHierarchy == InitHierarchy /\ [][NextHierarchy]_vars

SpecNames == Init /\ [][NextNames]_vars

SpecPermFair == InitPerm /\ [][NextPerm]_vars /\ FairPerm

TypeOK ==
  /\ now \in StartTime..MaxNow
  /\ lastUpdate \in ZeroTime..MaxNow
  /\ writer \in Callers \cup {NoCaller}
  /\ errChan.len <= errChanCap

\* ================================================================== claims
\* Steps of one caller, as seen in a pair of states.
CheckStep(p) == pc[p] = "check" /\ (pc'[p] # "check" \/ ip'[p] # ip[p])
LockStep(p) == pc[p] = "wantLock" /\ pc'[p] # "wantLock"
WaitStep(p) == pc[p] = "wait" /\ pc'[p] # "wait"
ReadStep(p) == pc[p] = "read" /\ ip'[p] = ip[p] + 1
LastFailed == hist # <<>> /\ hist[Len(hist)] = "failed"

\* C1 (as claimed): when a RefreshCacheIfNeeded call on a stale cache returns
\* with at least one of its four fetches failed, the four cached collections
\* are what they were when the call started, and the call returns an error.
C1_AllOrNothingRefresh ==
  [][\A p \in Callers :
       (WaitStep(p) /\ errChan.len > 0) =>
         (cache' = snap /\ ret'[p].val = "err")]_vars

\* C2 (as claimed): every collection a reader copies under the read lock was
\* written by a refresh whose four fetches all succeeded, and the four cached
\* collections at that moment were all written by that same refresh.
C2_AllOrNothingVisibility ==
  [][\A p \in Callers :
       ReadStep(p) =>
         LET k == Script(op[p])[ip[p]] IN
         /\ cache[k] \in 1..Len(hist)
         /\ hist[cache[k]] = "ok"
         /\ \A j \in Colls : cache[j] = cache[k]]_vars

\* C3: a RefreshCacheIfNeeded call whose staleness check runs after a
\* successful refresh with now - lastUpdate <= cacheTTL (boundary included)
\* returns nil, issues no upstream request, starts no goroutine, never takes
\* the write lock and leaves the collections and lastUpdate unchanged.
C3_FreshCallIsNoOp ==
  [][\A p \in Callers :
       (CheckStep(p) /\ lastUpdate # ZeroTime /\ now - lastUpdate <= cacheTTL) =>
         /\ ret'[p] = [val |-> "nil", path |-> "fresh"]
         /\ pc'[p] \notin {"wantLock", "wait"}
         /\ writer = NoCaller /\ writer' = NoCaller
         /\ reqs' = reqs /\ g' = g
         /\ cache' = cache /\ wsLen' = wsLen /\ lastUpdate' = lastUpdate]_vars

C3_Witness ==
  \E p \in Callers :
    /\ ret[p].path = "fresh"
    /\ lastUpdate # ZeroTime
    /\ now - lastUpdate = cacheTTL

\* C4 (as claimed): a refresh that ran its fetch section issued exactly one
\* upstream request per collection, whatever the cached workspace list held.
C4_ExactlyFourFetches ==
  \A p \in Callers :
    (pc[p] = "wait" /\ AllDone) => reqs = [k \in Colls |-> 1]

\* C5: a caller that found the cache stale and, while it waited for the write
\* lock, saw another caller's refresh succeed, re-checks under the write lock
\* (within the TTL of that refresh), issues no upstream request, starts no
\* goroutine and returns nil; and never are two callers in the fetch section.
C5_CollapseRefreshers ==
  /\ [](Cardinality({p \in Callers : pc[p] = "wait"}) <= 1)
  /\ [][\A p \in Callers :
          (LockStep(p) /\ missed[p] = "ok" /\ now - lastUpdate <= cacheTTL) =>
            /\ ret'[p] = [val |-> "nil", path |-> "collapsed"]
            /\ pc'[p] # "wait"
            /\ writer' = NoCaller
            /\ reqs' = reqs /\ g' = g
            /\ cache' = cache /\ lastUpdate' = lastUpdate]_vars

C5_Witness ==
  \E p, q \in Callers :
    /\ p # q
    /\ ret[p].path = "collapsed"
    /\ ret[q].path = "committed"

\* C6 (as claimed): a caller that waited for the write lock while another
\* caller's refresh failed receives that failure and starts no fetches.
C6_FailureFanOut ==
  [][\A p \in Callers :
       (LockStep(p) /\ missed[p] = "failed") =>
         (ret'[p].val = "err" /\ pc'[p] # "wait")]_vars

\* C7: lastUpdate changes only at the end of a refresh whose four fetches all
\* succeeded, to the current time, and never backwards; a failed refresh
\* leaves it unchanged and the cache stale; the next call after a failed
\* refresh goes to the write lock and into the fetch section; a refresh whose
\* four fetches succeed returns nil and leaves the cache fresh.
C7_NotPoisoned ==
  [][/\ lastUpdate' # lastUpdate =>
          \E p \in Callers :
            /\ WaitStep(p) /\ AllDone /\ errChan.len = 0
            /\ \A k \in Colls : cache[k] = Rid
            /\ lastUpdate' = now /\ lastUpdate' > lastUpdate
     /\ \A p \in Callers :
          /\ (WaitStep(p) /\ errChan.len > 0) =>
               (lastUpdate' = lastUpdate /\ NeedsRefresh(now, lastUpdate'))
          /\ (WaitStep(p) /\ errChan.len = 0) =>
               (ret'[p].val = "nil" /\ ~NeedsRefresh(now, lastUpdate'))
          /\ (LastFailed /\ CheckStep(p)) => pc'[p] = "wantLock"
          /\ (LastFailed /\ LockStep(p)) => pc'[p] = "wait"]_vars

C7_Witness ==
  /\ Len(hist) = 2 /\ hist[1] = "failed" /\ hist[2] = "ok"
  /\ lastUpdate = now
  /\ \E p \in Callers : ret[p].path = "committed"

\* C8: a facade operation one of whose RefreshCacheIfNeeded calls failed has
\* returned, with an error and without data, also when an older snapshot is
\* in the cache.
C8_NoStaleFallback ==
  \A p \in Callers :
    refErr[p] => (pc[p] = "idle" /\ opRes[p] = "err" /\ got[p] = NoCopies)

C8_Witness ==
  \E p \in Callers :
    /\ op[p] = "GetUserGroupAccess"
    /\ refErr[p]
    /\ lastUpdate # ZeroTime
    /\ NeedsRefresh(now, lastUpdate)
    /\ \A k \in Colls : cache[k] > 0

\* C9 (as claimed): whatever a caller does with the records a List* operation
\* returned, scalars or anything reachable from them, the cached content is
\* what it was.
C9_DefensiveCopies == Deep(cached, heap) = orig

\* C10: the effective permission calculateGroupPermission holds, at every
\* point of the walk and at its end, is one of read, comment, write, full and
\* ranks at least read, whatever strings the grant map and defaultPermission
\* hold.
C10_PermissionFloor ==
  /\ wEff \in Permissions
  /\ pOrder(wEff) >= pOrder("read")

C10_Witness ==
  /\ wState = "done"
  /\ groups[wTarget].default = "admin"
  /\ groups[wTarget].grant = ""
  /\ groups[wTarget].parent = UnknownGroup
  /\ wEff = "read"

\* The known groups on the parent chain of gid, gid included: the chain ends
\* at a root or at the first parent id that names no known group.
RECURSIVE ChainFrom(_, _, _)
ChainFrom(gs, id, seen) ==
  IF id = "" \/ id \notin DOMAIN gs \/ id \in seen THEN seen
  ELSE ChainFrom(gs, gs[id].parent, seen \cup {id})

ParentChain(gs, gid) == ChainFrom(gs, gid, {})

\* What the groups of a chain give the user: explicit grants and non-empty
\* default permissions.
ChainGives(gs, gid) ==
  {gs[i].grant : i \in {j \in ParentChain(gs, gid) : gs[j].grant # NoGrant}}
    \cup {gs[i].default : i \in {j \in ParentChain(gs, gid) : gs[j].default # ""}}

\* The maximum of read and a set of permission strings in the order
\* read < comment < write < full.
MaxPermission(ps) ==
  CHOOSE m \in Permissions :
    /\ m \in ps \cup {"read"}
    /\ \A x \in ps \cup {"read"} : pOrder(x) <= pOrder(m)

\* C11: when the walk for group G has ended and G or a group on G's parent
\* chain grants the user full, by its grant map or by its default permission,
\* the effective permission computed for G is full.
C11_FullPropagatesDown ==
  (wState = "done" /\ "full" \in ChainGives(groups, wTarget)) => wEff = "full"

C11_Witness ==
  /\ wState = "done"
  /\ wTarget = "B"
  /\ groups["B"] = [parent |-> "A", default |-> "comment", grant |-> "write"]
  /\ groups["A"].default = "full"
  /\ groups["A"].grant = NoGrant
  /\ wEff = "full"

\* C20: for an acyclic group set, the permission computed for group G is the
\* maximum, from read upwards in read < comment < write < full, of the
\* explicit grants and non-empty default permissions of G and of the groups on
\* G's parent chain, up to a root or the first unknown parent id.
C20_GroupEffectivePermission ==
  wState = "done" => wEff = MaxPermission(ChainGives(groups, wTarget))

C20_Witness ==
  /\ wState = "done"
  /\ wTarget = "A"
  /\ groups["A"] = [parent |-> "B", default |-> "", grant |-> "comment"]
  /\ groups["B"] = [parent |-> UnknownGroup, default |-> "write", grant |-> "admin"]
  /\ wEff = "write"

\* ------------------------------------------------------ claims of SpecAccess
Called(o) == o \in aCalled

\* The workspace-level effective permission, from the sets of grants: read,
\* the explicit grant of the workspace, and what its group's chain gives.
WorkspaceEffective(gm, ws) ==
  MaxPermission((IF ws.grant # NoGrant THEN {ws.grant} ELSE {})
                  \cup ChainGives(gm, ws.GroupID))

\* C12: GetUserWorkspaces returns one entry for exactly the cached workspaces
\* that have an explicit grant for the user, with that grant as permission,
\* whatever the group chain gives; a workspace of a known group without an
\* explicit grant is absent from GetUserWorkspaces and is listed under its
\* group by GetUserGroupAccess with the permission inherited from the chain.
C12_ExplicitOnlyView ==
  /\ Called("GetUserWorkspaces") =>
       /\ \A i, j \in 1..Len(uw) : uw[i].WorkspaceID = uw[j].WorkspaceID => i = j
       /\ {uw[i].WorkspaceID : i \in 1..Len(uw)}
            = {aSeen.uwWs[k].id :
                 k \in {n \in 1..Len(aSeen.uwWs) : aSeen.uwWs[n].grant # NoGrant}}
       /\ \A i \in 1..Len(uw) : \E k \in 1..Len(aSeen.uwWs) :
            /\ aSeen.uwWs[k].id = uw[i].WorkspaceID
            /\ uw[i].Permission = aSeen.uwWs[k].grant
  /\ (Called("GetUserWorkspaces") /\ Called("GetUserGroupAccess") /\ aRefreshes = 0) =>
       \A k \in 1..Len(aWs) :
         LET w == ListWorkspaces(aGroups, aWs)[k] IN
         (w.grant = NoGrant /\ w.GroupID \in DOMAIN groupMap(aGroups)) =>
           /\ \A i \in 1..Len(uw) : uw[i].WorkspaceID # w.id
           /\ \E n \in 1..Len(ga) :
                /\ ga[n].id = w.GroupID
                /\ \E e \in 1..Len(ga[n].emb) :
                     /\ ga[n].emb[e].id = w.id
                     /\ ga[n].emb[e].cur
                          = MaxPermission(ChainGives(groupMap(aGroups), w.GroupID))

C12_Witness ==
  /\ Called("GetUserWorkspaces") /\ Called("GetUserGroupAccess")
  /\ Len(aWs) = 2
  /\ Len(uw) = 1
  /\ uw[1].WorkspaceID = "w1" /\ uw[1].Permission = "write" /\ uw[1].GroupID = ""
  /\ \E n \in 1..Len(ga) :
       /\ ga[n].id = "g3"
       /\ ga[n].default = ""
       /\ ga[n].emb = <<[id |-> "w2", cur |-> "comment"]>>

\* The order the claim states: group path ascending with the empty path
\* last, then workspace name ascending.
SortsBefore(a, b) ==
  IF a.GroupPath # b.GroupPath
    THEN IF a.GroupPath = <<>> THEN FALSE
         ELSE IF b.GroupPath = <<>> THEN TRUE
         ELSE StrLess(a.GroupPath, b.GroupPath)
    ELSE StrLess(a.WorkspaceName, b.WorkspaceName)

\* C13 (as claimed): the list GetUserWorkspaces returns is sorted by group
\* path ascending, entries with an empty group path last, then by workspace
\* name ascending.
C13_SortedByPathThenName ==
  Called("GetUserWorkspaces") =>
    \A i, j \in 1..Len(uw) : i < j => ~SortsBefore(uw[j], uw[i])

\* C14 (as claimed): every group GetUserGroupAccess returns embeds exactly the
\* cached workspaces it owns, each once and each with its workspace-level
\* effective permission; a group owning no cached workspace embeds none.
C14_OwnedWorkspacesOnly ==
  Called("GetUserGroupAccess") =>
    \A n \in 1..Len(ga) :
      LET all == ListWorkspaces(aSeen.gaList, aSeen.gaWs)
          owned == {k \in 1..Len(all) : all[k].GroupID = ga[n].id}
      IN
      /\ Len(ga[n].emb) = Cardinality(owned)
      /\ {ga[n].emb[e].id : e \in 1..Len(ga[n].emb)} = {all[k].id : k \in owned}
      /\ \A e \in 1..Len(ga[n].emb) : \E k \in owned :
           /\ all[k].id = ga[n].emb[e].id
           /\ ga[n].emb[e].cur = WorkspaceEffective(groupMap(aSeen.gaMaps), all[k])

\* The path of a group, from the root down: the parent's path, the separator
\* and the group's name; the name alone when the parent is absent or unknown.
RECURSIVE PathOf(_, _)
PathOf(gm, id) ==
  IF id = "" \/ id \notin DOMAIN gm THEN <<>>
  ELSE LET up == PathOf(gm, gm[id].parent)
       IN IF up = <<>> THEN gm[id].name ELSE up \o PathSep \o gm[id].name

\* C15: every entry of GetUserWorkspaces carries the names of the chain from
\* the root down to the workspace's group joined by " > "; for the chain
\* A (root), B (child of A), C (child of B) and a workspace of C that is
\* "A > B > C"; for an ungrouped workspace it is empty.
C15_GroupPath ==
  Called("GetUserWorkspaces") =>
    \A i \in 1..Len(uw) :
      /\ uw[i].GroupPath = PathOf(groupMap(aSeen.uwPath), uw[i].GroupID)
      /\ uw[i].GroupID = "" => uw[i].GroupPath = <<>>
      /\ (/\ uw[i].GroupID = "g3"
          /\ aSeen.uwPath[3].parent = "g2" /\ aSeen.uwPath[2].parent = "g1"
          /\ aSeen.uwPath[1].parent = "")
           => uw[i].GroupPath = <<65, 32, 62, 32, 66, 32, 62, 32, 67>>

C15_Witness ==
  /\ Called("GetUserWorkspaces")
  /\ \E i \in 1..Len(uw) :
       /\ uw[i].GroupID = "g3"
       /\ uw[i].GroupPath = <<65, 32, 62, 32, 66, 32, 62, 32, 67>>
  /\ \E i \in 1..Len(uw) : uw[i].GroupID = "" /\ uw[i].GroupPath = <<>>

\* ---------------------------------------------- claims of SpecWorkspaceUsers
\* C16: when GetWorkspaceUsers returns a list, it holds exactly one entry per
\* key of the workspace's permission map, each with the permission of its
\* key; a key with no user in the user list gets FullName "Unknown User" and
\* an empty email, a key with one gets that user's name and email; the
\* operation fails only when one of its two upstream calls failed.
C16_UnknownUserPlaceholder ==
  /\ wuRes = "ok" =>
       /\ Len(wuOut) = Cardinality(DOMAIN wuPerms)
       /\ {wuOut[i].UserID : i \in 1..Len(wuOut)} = DOMAIN wuPerms
       /\ \A i \in 1..Len(wuOut) :
            LET known == {k \in 1..Len(wuUsers) : wuUsers[k].UserID = wuOut[i].UserID} IN
            /\ wuOut[i].Permission = wuPerms[wuOut[i].UserID]
            /\ known = {} => (wuOut[i].FullName = "Unknown User" /\ wuOut[i].Email = "")
            /\ known # {} => \E k \in known :
                               /\ wuOut[i].FullName = wuUsers[k].FullName
                               /\ wuOut[i].Email = wuUsers[k].Email
  /\ wuRes = "err" => (~wuUp.workspace \/ ~wuUp.users)

C16_Witness ==
  /\ wuRes = "ok"
  /\ DOMAIN wuPerms = {"u2", "x"}
  /\ wuUsers = <<[UserID |-> "u2", FullName |-> "Bob", Email |-> "bob@example.org"]>>
  /\ wuOut = <<[UserID |-> "x", FullName |-> "Unknown User", Email |-> "", Permission |-> "full"],
               [UserID |-> "u2", FullName |-> "Bob", Email |-> "bob@example.org",
                Permission |-> "read"]>>

\* ------------------------------------------------------ claims of SpecFields
\* The ids the claim names for a field: allWorkspaceIds for a team-scoped
\* field, the embedded per-workspace associations for a workspace-scoped one.
ClaimedIDs(field) ==
  IF field.IsTeamField THEN field.AllWorkspaceIDs.items ELSE field.Workspaces.items

\* C17: WorkspaceNames holds, in the order of the field's workspace ids, the
\* name of every id that is in the workspace list and nothing for an id that
\* is not: no placeholder, no error, never more names than ids.
C17_FieldWorkspaceNaming ==
  fDone =>
    LET ids == ClaimedIDs(fField)
        present == {i \in 1..Len(ids) : \E k \in 1..Len(fWs) : fWs[k].id = ids[i]}
    IN
    /\ Len(fOut.items) = Cardinality(present)
    /\ Len(fOut.items) <= Len(ids)
    /\ \A i \in present :
         \E k \in 1..Len(fWs) :
           /\ fWs[k].id = ids[i]
           /\ fOut.items[Cardinality({j \in present : j <= i})] = fWs[k].name

C17_Witness ==
  /\ fDone
  /\ fField.IsTeamField
  /\ fField.AllWorkspaceIDs = Slice(<<"w9", "w2">>)
  /\ fWs = <<[id |-> "w1", name |-> "Alpha"], [id |-> "w2", name |-> "Beta"]>>
  /\ fOut = Slice(<<"Beta">>)

\* ------------------------------------------- claims of Spec and SpecCancel
\* C18 (as claimed): a caller whose context is cancelled while a fetch of its refresh is
\* in flight returns from RefreshCacheIfNeeded (it does not stay in wg.Wait),
\* with an error, with the write lock released, and with lastUpdate unchanged
\* so that the cache is still stale.
C18_CancellationReturns ==
  /\ [][\A p \in Callers :
          (WaitStep(p) /\ cancelledInFlight[p]) =>
            /\ ret'[p].val = "err"
            /\ writer' = NoCaller
            /\ lastUpdate' = lastUpdate
            /\ NeedsRefresh(now, lastUpdate')]_vars
  /\ \A p \in Callers :
       (cancelledInFlight[p] /\ pc[p] = "wait")
         ~> (pc[p] = "idle" /\ ret[p].val = "err" /\ writer # p)

\* C19 (as claimed): the write lock is not held while a fetch of a refresh is
\* in flight, so a caller at its read-lock section while a refresh is in
\* flight can take the read lock.
C19_ReadersNotBlocked ==
  /\ FetchInFlight => writer = NoCaller
  /\ \A p \in Callers : (pc[p] = "read" /\ FetchInFlight) => writer = NoCaller

\* -------- C21..C30

\* the permission the specification gives a workspace: the maximum of read,
\* its explicit grant and its group's effective permission
WorkspaceMaximum(gs, ws) ==
  MaxPermission((IF ws.grant # NoGrant THEN {ws.grant} ELSE {})
                \cup (IF ws.GroupID # ""
                        THEN {MaxPermission(ChainGives(gs, ws.GroupID))} ELSE {}))

\* C21: a workspace's effective permission is the maximum of read, the
\* workspace's explicit grant and its group's effective permission; in the
\* scenario (A root with default read, B child of A with default write, W in B,
\* no grants) it is write.
C21_WorkspaceEffectivePermission ==
  wsState = "done" => wsEff = WorkspaceMaximum(groups, wsRec)

C21_Witness ==
  /\ wsState = "done"
  /\ groups["A"] = [parent |-> "", default |-> "read", grant |-> NoGrant, name |-> NameA]
  /\ groups["B"] = [parent |-> "A", default |-> "write", grant |-> NoGrant, name |-> NameB]
  /\ wsRec = [GroupID |-> "B", grant |-> NoGrant]
  /\ wsEff = "write"

\* C22: on group data without a parent cycle the permission walk and the
\* path walk both come to an end, and a walk that meets a parent id naming no
\* known group ends there with the result of the groups it visited.
C22_WalksTerminate ==
  /\ (wState = "walk") ~> (wState = "done")
  /\ (pState = "walk") ~> (pState = "done")
  /\ [](wState = "done" => wEff = MaxPermission(ChainGives(groups, wTarget)))
  /\ [](pState = "done" => pOut = PathOf(groups, pTarget))

C22_Witness ==
  /\ pState = "done"
  /\ pTarget = "B"
  /\ groups["A"].parent = UnknownGroup
  /\ groups["B"].parent = "A"
  /\ pCur = UnknownGroup
  /\ pOut = NameA \o PathSep \o NameB

\* C23: the ancestor walk ends on group data with a parent cycle too.  The
\* loop of calculateGroupPermission keeps no record of the groups it has
\* visited: on such data a walk that has started never comes to done.
C23_CycleDefence == (wState = "walk") ~> (wState = "done")

\* C25 (as claimed): in the result of GetUserGroupAccess no workspace id is in
\* the embedded workspace lists of two returned groups, whatever the upstream
\* sent: a workspace embedded in two groups, or a workspace whose own group id
\* differs from the group embedding it.
C25_WorkspaceInOneGroup ==
  Called("GetUserGroupAccess") =>
    \A n, m \in 1..Len(ga) :
      n # m =>
        {ga[n].emb[e].id : e \in 1..Len(ga[n].emb)}
          \cap {ga[m].emb[e].id : e \in 1..Len(ga[m].emb)} = {}

\* C30 (as claimed): in every result of GetUserGroupAccess over a group set
\* without a parent cycle, a returned group whose parent is returned too has a
\* CurrentPermission at least its parent's, and every workspace attached to a
\* returned group has a CurrentPermission at least that group's.
C30_MonotoneInheritance ==
  Called("GetUserGroupAccess") =>
    \A n \in 1..Len(ga) :
      /\ \A m \in 1..Len(ga) :
           ga[m].id = ga[n].parent => pOrder(ga[n].cur) >= pOrder(ga[m].cur)
      /\ \A e \in 1..Len(ga[n].emb) :
           pOrder(ga[n].emb[e].cur) >= pOrder(ga[n].cur)

\* C24 (as claimed): the map GetWorkspaceHierarchy returns places every cached
\* group exactly once, under the key of its parent id or under "root" when it
\* has none; the children of a key are in ascending Order, and two children of
\* equal Order are in the order in which the upstream returned them.
C24_HierarchyStable ==
  (hCalled /\ ~hErr) =>
    /\ \A i \in 1..Len(hGroups) :
         /\ hierarchyKey(hGroups[i]) \in DOMAIN hOut
         /\ \A k \in DOMAIN hOut :
              Cardinality({n \in 1..Len(hOut[k]) : hOut[k][n] = hGroups[i]})
                = (IF k = hierarchyKey(hGroups[i]) THEN 1 ELSE 0)
    /\ \A k \in DOMAIN hOut : \A n, m \in 1..Len(hOut[k]) :
         n < m =>
           /\ hOut[k][n].Order <= hOut[k][m].Order
           /\ hOut[k][n].Order = hOut[k][m].Order => hOut[k][n].id < hOut[k][m].id

\* fetchFields reads c.cache.workspaces: its length, then its elements
FieldsReadStep ==
  \/ g["fields"] = "run" /\ g'["fields"] \in {"prefetch", "range"}
  \/ g["fields"] = "range" /\ g'["fields"] \in {"search", "panic"}

\* C27 (as claimed): the read of c.cache.workspaces by fetchFields is ordered
\* with the write of c.cache.workspaces by the workspaces goroutine of the
\* same refresh: the read is never taken while that write is still to come
\* with nothing between the two goroutines to order them.
C27_NoRaceInsideRefresh ==
  [][FieldsReadStep => g["workspaces"] \notin {"run", "fetched"}]_vars

SnapshotOps == {"ListWorkspaces", "GetUserGroupAccess", "GetUserWorkspaces"}

\* C29 (as claimed): when ListWorkspaces, GetUserGroupAccess or
\* GetUserWorkspaces has returned its result, the group list and the workspace
\* list it read come from the same refresh.
C29_OneSnapshot ==
  \A p \in Callers :
    (opRes[p] = "ok" /\ op[p] \in SnapshotOps) =>
      got[p]["workspaceGroups"] = got[p]["workspaces"]

\* C28 (as claimed): whatever the four fetches return, a goroutine about to send its error
\* finds room in errChan, the caller leaving wg.Wait releases the write lock,
\* and every operation a handler has started comes to its end.
C28_RefreshNeverWedges ==
  /\ [](\A k \in Colls : g[k] \in {"run", "prefetch", "search"} => CanSend(errChan))
  /\ [][\A p \in Callers : WaitStep(p) => writer' = NoCaller]_vars
  /\ \A p \in Callers : (pc[p] \notin {"new", "idle"}) ~> (pc[p] = "idle")

\* C26 (as claimed): after every successful refresh the WorkspaceNames of the
\* cached field are the names found for its workspace ids in the workspace
\* list that the same refresh committed, also when the workspace was renamed,
\* added or removed since the refresh before.
C26_FieldNamesFollowSnapshot ==
  (writer = NoCaller /\ hist # <<>> /\ ~LastFailed) =>
    cNames = namesOf(workspaceMap(cWs), FieldIDs)

====
